---- MODULE Spec2Model ----
(***************************************************************************)
(* Model of the geochemistry plotting dock widget (geochem_dock.py).       *)
(*                                                                         *)
(* Python strings are sequences of one-character strings, so that upper(), *)
(* lower(), capitalize(), startswith(), slicing and the `in` substring     *)
(* test are computed character by character as Python computes them.       *)
(* Python floats are exact rationals <<n, d>> (d > 0, lowest terms).       *)
(***************************************************************************)
EXTENDS Integers, Sequences, FiniteSets, TLC

VARIABLES
    fields,          \* layer.fields(): the schema, an ordered list of names
    feats,           \* the layer's features; feats[k][i] is the cell of fields[i]
    element,         \* argument `element` of the function last applied
    convert_to_ppm,  \* argument `convert_to_ppm` of get_element_value
    arg_normalize,   \* argument `normalize` of get_custom_element_value
    abc,             \* arguments a, b, c of ternary_to_cartesian
    norm_id,         \* table passed as `norm_values`: 0 None, 1 chondrite, 2 primitive mantle
    op,              \* the function or handler whose outcome is held ("init", "idle": none)
    ret_field,       \* value returned by find_element_field
    ret_val,         \* value returned by a value lookup (NoneVal or a rational)
    exc,             \* exception that left the function last applied ("" if none)
    ret_coords,      \* tuple returned by calculate_coordinates or ternary_to_cartesian
    has_layer,       \* layer_combo names a layer of the project
    selected,        \* feature_list.selectedItems(), as indices into feats
    x_num,           \* x_num_combo.currentText()
    x_denom,         \* x_denom_combo.currentText()
    y_num,           \* y_num_combo.currentText()
    y_denom,         \* y_denom_combo.currentText()
    ree_norm_id,     \* ree_norm_group.checkedId()
    tab,             \* tab_widget.currentIndex()
    diagram,         \* DISCRIMINATION_DIAGRAMS[diagram_combo.currentText()], by class name
    id_field,        \* id_field_combo.currentText()
    order_index,     \* order_combo.currentIndex()
    norm_index,      \* norm_combo.currentIndex()
    current_fig,     \* self.current_fig: 0 is None, k > 0 the k-th figure created
    n_figs,          \* number of figures created so far
    message,         \* the message box the handler last applied has shown ("" if none)
    missing_elements,\* the symbols listed by the "Missing elements" warning
    x_data,          \* x_data of the handler last applied (<<>> if not computed)
    y_data,          \* y_data of the handler last applied (<<>> if not computed)
    valid_count,     \* valid_count of the handler last applied
    sample_names,    \* sample_names of the handler or function last applied
    data,            \* data of generate_discrimination_diagram (<<>> if not computed)
    plot_data,       \* plot_data of generate_spider_diagram (<<>> if not computed)
    category_colors, \* the five values returned by create_categorical_color_map;
    sample_colors,   \*   a dict is the sequence of its <<key, value>> pairs in
    unique_categories, \* insertion order
    category_markers,
    sample_markers,
    drawn,           \* the ax.scatter and ax.plot calls of the sample loop, in order
    saved_fig,       \* the figure written by the last savefig call (0: none yet)
    chondrite_values,        \* the dict CHONDRITE_VALUES of the loaded module
    primitive_mantle_values, \* the dict PRIMITIVE_MANTLE_VALUES of the loaded module
    pluginIsActive,  \* GeochemPlottingPlugin.pluginIsActive
    dock_widget,     \* GeochemPlottingPlugin.dock_widget: 0 is None, k > 0 the k-th widget created
    toolbar,         \* the plugin object has its attribute toolbar
    connected,       \* dock_widget.closingPlugin is connected to onClosePlugin
    dock_visible,    \* the dock widget is shown in the QGIS window
    dock_added,      \* the last run() called iface.addDockWidget
    dock_tabbed,     \* the last run() tabified the dock widget with another one
    n_docks,         \* dock widgets created so far
    other_docks      \* dock widgets of other plugins in the right dock area

tableVars == <<chondrite_values, primitive_mantle_values>>
pluginVars == <<pluginIsActive, dock_widget, toolbar, connected, dock_visible, dock_added,
                dock_tabbed, n_docks, other_docks>>
\* the layer, with what no handler of the widget assigns to: the tables of
\* the module and the plugin object
layerVars == <<fields, feats, tableVars, pluginVars>>
callVars == <<element, convert_to_ppm, arg_normalize, norm_id, abc, op, ret_field, ret_val, exc,
              ret_coords>>
pageVars == <<tab, diagram, id_field, order_index, norm_index>>
comboVars == <<x_num, x_denom, y_num, y_denom, ree_norm_id, pageVars>>
figVars == <<current_fig, n_figs, saved_fig>>
outVars == <<message, missing_elements, x_data, y_data, valid_count>>
styleVars == <<category_colors, sample_colors, unique_categories, category_markers,
               sample_markers>>
seriesVars == <<sample_names, data, plot_data, styleVars, drawn>>
widgetVars == <<has_layer, selected, comboVars, figVars, outVars, seriesVars>>

vars == <<layerVars, callVars, widgetVars>>

-----------------------------------------------------------------------------
(* Bounds *)

MaxFields == 2

\* features of the layer shown in the dock widget
MaxSamples == 2

\* figures created in one run of the widget
MaxFigs == 2

-----------------------------------------------------------------------------
(* Python str methods *)

LowerCase == <<"a", "b", "c", "d", "e", "f", "g", "h", "i", "j", "k", "l", "m",
               "n", "o", "p", "q", "r", "s", "t", "u", "v", "w", "x", "y", "z">>
UpperCase == <<"A", "B", "C", "D", "E", "F", "G", "H", "I", "J", "K", "L", "M",
               "N", "O", "P", "Q", "R", "S", "T", "U", "V", "W", "X", "Y", "Z">>

CharUpper(c) ==
    IF \E i \in DOMAIN LowerCase : LowerCase[i] = c
    THEN UpperCase[CHOOSE i \in DOMAIN LowerCase : LowerCase[i] = c]
    ELSE c

CharLower(c) ==
    IF \E i \in DOMAIN UpperCase : UpperCase[i] = c
    THEN LowerCase[CHOOSE i \in DOMAIN UpperCase : UpperCase[i] = c]
    ELSE c

upper(s) == [i \in 1..Len(s) |-> CharUpper(s[i])]

lower(s) == [i \in 1..Len(s) |-> CharLower(s[i])]

capitalize(s) == [i \in 1..Len(s) |-> IF i = 1 THEN CharUpper(s[i]) ELSE CharLower(s[i])]

startswith(s, prefix) ==
    /\ Len(prefix) <= Len(s)
    /\ SubSeq(s, 1, Len(prefix)) = prefix

\* s[n:]
SliceFrom(s, n) == SubSeq(s, n + 1, Len(s))

\* sub in s, for strings
Contains(s, sub) ==
    \E i \in 0..(Len(s) - Len(sub)) : SubSeq(s, i + 1, i + Len(sub)) = sub

\* x in lst, for lists
InList(x, lst) == \E i \in DOMAIN lst : lst[i] = x

\* Python None where a field name is expected
None == <<"None">>

\* truth value of `field_name` in `if field_name:` (None and '' are false)
Truthy(s) == s # None /\ s # <<>>

-----------------------------------------------------------------------------
(* find_element_field *)

oxide_keys == {<<"T", "i">>, <<"F", "e">>, <<"M", "n">>, <<"M", "g">>, <<"C", "a">>, <<"N", "a">>, <<"K">>, <<"P">>, <<"S", "i">>, <<"A", "l">>}

oxide_forms(e) ==
    CASE e = <<"T", "i">> -> <<<<"T", "i", "O", "2", "_", "p", "c", "t">>, <<"T", "i", "O", "2", "_", "P", "C", "T">>, <<"T", "i", "O", "2", "_", "w", "t">>, <<"T", "i", "O", "2">>, <<"t", "i", "o", "2", "_", "p", "c", "t">>, <<"T", "I", "O", "2", "_", "P", "C", "T">>>>
      [] e = <<"F", "e">> -> <<<<"F", "e", "2", "O", "3", "_", "p", "c", "t">>, <<"F", "e", "2", "O", "3", "T", "_", "p", "c", "t">>, <<"F", "e", "O", "_", "p", "c", "t">>, <<"F", "e", "2", "O", "3", "_", "P", "C", "T">>, <<"F", "e", "O", "T", "_", "p", "c", "t">>, <<"F", "e", "O", "_", "P", "C", "T">>>>
      [] e = <<"M", "n">> -> <<<<"M", "n", "O", "_", "p", "c", "t">>, <<"M", "n", "O", "_", "P", "C", "T">>, <<"M", "n", "O", "_", "w", "t">>, <<"M", "n", "O">>>>
      [] e = <<"M", "g">> -> <<<<"M", "g", "O", "_", "p", "c", "t">>, <<"M", "g", "O", "_", "P", "C", "T">>, <<"M", "g", "O", "_", "w", "t">>, <<"M", "g", "O">>>>
      [] e = <<"C", "a">> -> <<<<"C", "a", "O", "_", "p", "c", "t">>, <<"C", "a", "O", "_", "P", "C", "T">>, <<"C", "a", "O", "_", "w", "t">>, <<"C", "a", "O">>>>
      [] e = <<"N", "a">> -> <<<<"N", "a", "2", "O", "_", "p", "c", "t">>, <<"N", "a", "2", "O", "_", "P", "C", "T">>, <<"N", "a", "2", "O", "_", "w", "t">>, <<"N", "a", "2", "O">>>>
      [] e = <<"K">> -> <<<<"K", "2", "O", "_", "p", "c", "t">>, <<"K", "2", "O", "_", "P", "C", "T">>, <<"K", "2", "O", "_", "w", "t">>, <<"K", "2", "O">>>>
      [] e = <<"P">> -> <<<<"P", "2", "O", "5", "_", "p", "c", "t">>, <<"P", "2", "O", "5", "_", "P", "C", "T">>, <<"P", "2", "O", "5", "_", "w", "t">>, <<"P", "2", "O", "5">>>>
      [] e = <<"S", "i">> -> <<<<"S", "i", "O", "2", "_", "p", "c", "t">>, <<"S", "i", "O", "2", "_", "P", "C", "T">>, <<"S", "i", "O", "2", "_", "w", "t">>, <<"S", "i", "O", "2">>>>
      [] e = <<"A", "l">> -> <<<<"A", "l", "2", "O", "3", "_", "p", "c", "t">>, <<"A", "l", "2", "O", "3", "_", "P", "C", "T">>, <<"A", "l", "2", "O", "3", "_", "w", "t">>, <<"A", "l", "2", "O", "3">>>>

direct_patterns(e) ==
    << e, upper(e), lower(e), capitalize(e),
       e \o <<"_", "p", "p", "m">>, upper(e) \o <<"_", "p", "p", "m">>, lower(e) \o <<"_", "p", "p", "m">>,
       e \o <<"_", "P", "P", "M">>, upper(e) \o <<"_", "P", "P", "M">>, lower(e) \o <<"_", "P", "P", "M">>,
       e \o <<"_", "p", "p", "b">>, upper(e) \o <<"_", "p", "p", "b">>, e \o <<"_", "P", "P", "B">>,
       e \o <<"_", "p", "c", "t">>, upper(e) \o <<"_", "p", "c", "t">>, e \o <<"_", "P", "C", "T">>,
       e \o <<"_", "w", "t">>, e \o <<"_", "W", "T">>, e \o <<"_", "w", "t", "p", "c", "t">>, e \o <<"_", "w", "t", "_", "p", "c", "t">>,
       e \o <<"(", "p", "p", "m", ")">>, e \o <<" ", "(", "p", "p", "m", ")">>, e \o <<"(", "P", "P", "M", ")">>, e \o <<"_", "[", "p", "p", "m", "]">> >>

\* Mutation of patterns: the oxide forms are never appended.
patterns_direct_only(e) == direct_patterns(e)

patterns(e) ==
    IF e \in oxide_keys THEN direct_patterns(e) \o oxide_forms(e) ELSE direct_patterns(e)

suffix_allow_list ==
    << <<>>, <<"_", "P", "P", "M">>, <<"_", "P", "P", "B">>, <<"_", "P", "C", "T">>, <<"_", "W", "T">>, <<"_", "W", "T", "P", "C", "T">>,
       <<"_", "W", "T", "_", "P", "C", "T">>, <<"(", "P", "P", "M", ")">>, <<" ", "(", "P", "P", "M", ")">>, <<"_", "[", "P", "P", "M", "]">>, <<"_", "W", "T", "%">>, <<"P", "P", "M">>, <<"P", "P", "B">>,
       <<"O", "2", "_", "P", "C", "T">>, <<"O", "_", "P", "C", "T">>, <<"2", "O", "3", "_", "P", "C", "T">>, <<"2", "O", "_", "P", "C", "T">>, <<"2", "O", "5", "_", "P", "C", "T">> >>

\* Mutation of exact_scan: walks the schema and returns its first field that is
\* a candidate, so that the schema order decides instead of the candidate order.
RECURSIVE exact_scan_schema_order(_, _, _)
exact_scan_schema_order(pats, field_names, i) ==
    IF i > Len(field_names) THEN None
    ELSE IF InList(field_names[i], pats) THEN field_names[i]
    ELSE exact_scan_schema_order(pats, field_names, i + 1)

\* for pattern in patterns: if pattern in field_names: return pattern
RECURSIVE exact_scan(_, _, _)
exact_scan(pats, field_names, i) ==
    IF i > Len(pats) THEN None
    ELSE IF InList(pats[i], field_names) THEN pats[i]
    ELSE exact_scan(pats, field_names, i + 1)

\* Mutation of prefix_scan: the remainder is not checked against the allow-list.
RECURSIVE prefix_scan_any_suffix(_, _, _)
prefix_scan_any_suffix(field_names, element_upper, j) ==
    IF j > Len(field_names) THEN None
    ELSE IF startswith(upper(field_names[j]), element_upper) THEN field_names[j]
    ELSE prefix_scan_any_suffix(field_names, element_upper, j + 1)

\* for field_name in field_names: ... if remainder in [...]: return field_name
RECURSIVE prefix_scan(_, _, _)
prefix_scan(field_names, element_upper, j) ==
    IF j > Len(field_names) THEN None
    ELSE LET field_upper == upper(field_names[j]) IN
         IF /\ startswith(field_upper, element_upper)
            /\ InList(SliceFrom(field_upper, Len(element_upper)), suffix_allow_list)
         THEN field_names[j]
         ELSE prefix_scan(field_names, element_upper, j + 1)

find_element_field(field_names, e) ==
    LET hit == exact_scan(patterns(e), field_names, 1) IN
    IF hit # None THEN hit
    ELSE prefix_scan(field_names, upper(e), 1)

-----------------------------------------------------------------------------
(* Python floats, as exact rationals *)

\* Python None where a number is expected (no rational has denominator 0)
NoneVal == <<0, 0>>

Abs(n) == IF n < 0 THEN -n ELSE n

RECURSIVE GCD(_, _)
GCD(a, b) == IF b = 0 THEN a ELSE GCD(b, a % b)

\* the rational n/d (d > 0) in lowest terms; Dec(2995, 1000) is the literal 2.995
Dec(n, d) == LET g == GCD(Abs(n), d) IN <<n \div g, d \div g>>

R(n) == <<n, 1>>

RMul(a, b) ==
    LET g1 == GCD(Abs(a[1]), b[2])
        g2 == GCD(Abs(b[1]), a[2])
    IN Dec((a[1] \div g1) * (b[1] \div g2), (a[2] \div g2) * (b[2] \div g1))

\* a / b for b # 0
RDiv(a, b) ==
    RMul(a, IF b[1] > 0 THEN <<b[2], b[1]>> ELSE <<-b[2], -b[1]>>)

RAdd(a, b) ==
    LET g == GCD(a[2], b[2])
    IN Dec(a[1] * (b[2] \div g) + b[1] * (a[2] \div g), (a[2] \div g) * b[2])

RLess(a, b) == a[1] * b[2] < b[1] * a[2]

RPositive(a) == a[1] > 0

-----------------------------------------------------------------------------
(* Attribute cells and float() *)

\* feature[field]: the QGIS NULL (or None), a number, or a string
NullCell == [t |-> "null", v |-> NoneVal, s |-> <<>>]
NumCell(r) == [t |-> "num", v |-> r, s |-> <<>>]
StrCell(chars) == [t |-> "str", v |-> NoneVal, s |-> chars]

Digits == <<"0", "1", "2", "3", "4", "5", "6", "7", "8", "9">>

IsDigit(c) == InList(c, Digits)

DigitVal(c) == (CHOOSE i \in DOMAIN Digits : Digits[i] = c) - 1

RECURSIVE strip(_)
strip(s) ==
    IF s # <<>> /\ s[1] = " " THEN strip(Tail(s))
    ELSE IF s # <<>> /\ s[Len(s)] = " " THEN strip(SubSeq(s, 1, Len(s) - 1))
    ELSE s

RECURSIVE DigitsValue(_)
DigitsValue(s) ==
    IF s = <<>> THEN 0
    ELSE 10 * DigitsValue(SubSeq(s, 1, Len(s) - 1)) + DigitVal(s[Len(s)])

RECURSIVE Pow10(_)
Pow10(k) == IF k = 0 THEN 1 ELSE 10 * Pow10(k - 1)

\* float(str) for decimal literals: optional blanks, optional sign, digits with
\* at most one point.  The cells of the model hold no exponent, inf, nan or
\* underscore spelling, which float() parses as well.
ParseFloat(s) ==
    LET t == strip(s)
        neg == t # <<>> /\ t[1] = "-"
        body == IF t # <<>> /\ t[1] \in {"-", "+"} THEN Tail(t) ELSE t
        dots == { i \in DOMAIN body : body[i] = "." }
        digs == SelectSeq(body, IsDigit)
        wellformed == /\ Cardinality(dots) <= 1
                      /\ Len(digs) >= 1
                      /\ Len(digs) + Cardinality(dots) = Len(body)
        frac == IF dots = {} THEN 0 ELSE Len(body) - (CHOOSE i \in dots : TRUE)
        mag == DigitsValue(digs)
    IN IF wellformed
       THEN [exc |-> "", val |-> Dec(IF neg THEN -mag ELSE mag, Pow10(frac))]
       ELSE [exc |-> "ValueError", val |-> NoneVal]

\* float(cell): TypeError for NULL/None, ValueError for a string that is no number
float(cell) ==
    CASE cell.t = "null" -> [exc |-> "TypeError", val |-> NoneVal]
      [] cell.t = "num"  -> [exc |-> "", val |-> cell.v]
      [] cell.t = "str"  -> ParseFloat(cell.s)

\* result of a call: the value returned, or the exception that leaves the call
Return(v) == [exc |-> "", val |-> v]
Raise(e) == [exc |-> e, val |-> NoneVal]

IndexOf(lst, x) == CHOOSE i \in DOMAIN lst : lst[i] = x

\* feature[field_name]
Cell(feature, field_names, field_name) == feature[IndexOf(field_names, field_name)]

-----------------------------------------------------------------------------
(* get_element_value *)

\* Mutation of caught_errors: the handler catches ValueError only.
caught_value_error_only == {"ValueError"}

\* except (ValueError, TypeError)
caught_errors == {"ValueError", "TypeError"}

\* `'PCT' in field_upper or 'WT' in field_upper`
HasPctOrWt(field_upper) == Contains(field_upper, <<"P", "C", "T">>) \/ Contains(field_upper, <<"W", "T">>)

\* Mutation of ppm_converted: a K2O branch is added to the three conversions.
ppm_converted_with_k2o(value, field_upper) ==
    IF Contains(field_upper, <<"T", "I", "O", "2">>) /\ HasPctOrWt(field_upper) THEN RMul(value, R(5995))
    ELSE IF Contains(field_upper, <<"M", "N", "O">>) /\ HasPctOrWt(field_upper) THEN RMul(value, R(7745))
    ELSE IF Contains(field_upper, <<"P", "2", "O", "5">>) /\ HasPctOrWt(field_upper) THEN RMul(value, R(4364))
    ELSE IF Contains(field_upper, <<"K", "2", "O">>) /\ HasPctOrWt(field_upper) THEN RMul(value, R(8301))
    ELSE value

\* the if/elif chain under `if convert_to_ppm:`
ppm_converted(value, field_upper) ==
    IF Contains(field_upper, <<"T", "I", "O", "2">>) /\ HasPctOrWt(field_upper) THEN RMul(value, R(5995))
    ELSE IF Contains(field_upper, <<"M", "N", "O">>) /\ HasPctOrWt(field_upper) THEN RMul(value, R(7745))
    ELSE IF Contains(field_upper, <<"P", "2", "O", "5">>) /\ HasPctOrWt(field_upper) THEN RMul(value, R(4364))
    ELSE value

get_element_value(feature, field_names, e, conv) ==
    LET field_name == find_element_field(field_names, e) IN
    IF Truthy(field_name)
    THEN LET f == float(Cell(feature, field_names, field_name)) IN
         IF f.exc \in caught_errors THEN Return(NoneVal)
         ELSE IF f.exc # "" THEN Raise(f.exc)
         ELSE IF conv THEN Return(ppm_converted(f.val, upper(field_name)))
         ELSE Return(f.val)
    ELSE Return(NoneVal)

-----------------------------------------------------------------------------
(* Normalization values *)

CHONDRITE_VALUES ==
    << <<<<"B", "a">>, Dec(241, 100)>>, <<<<"R", "b">>, Dec(232, 100)>>, <<<<"C", "s">>, Dec(188, 1000)>>, <<<<"S", "r">>, Dec(726, 100)>>,
       <<<<"K">>, Dec(545, 1)>>, <<<<"K", "2", "O">>, Dec(545, 10000)>>, <<<<"T", "h">>, Dec(29, 1000)>>, <<<<"U">>, Dec(74, 10000)>>,
       <<<<"N", "b">>, Dec(246, 1000)>>, <<<<"T", "a">>, Dec(14, 1000)>>, <<<<"Z", "r">>, Dec(387, 100)>>, <<<<"H", "f">>, Dec(1066, 10000)>>,
       <<<<"T", "i">>, Dec(445, 1)>>, <<<<"T", "i", "O", "2">>, Dec(728, 10000)>>, <<<<"P">>, Dec(1220, 1)>>, <<<<"P", "2", "O", "5">>, Dec(28, 100)>>,
       <<<<"L", "a">>, Dec(237, 1000)>>, <<<<"C", "e">>, Dec(612, 1000)>>, <<<<"P", "r">>, Dec(95, 1000)>>, <<<<"N", "d">>, Dec(467, 1000)>>,
       <<<<"S", "m">>, Dec(153, 1000)>>, <<<<"E", "u">>, Dec(58, 1000)>>, <<<<"G", "d">>, Dec(2055, 10000)>>, <<<<"T", "b">>, Dec(374, 10000)>>,
       <<<<"D", "y">>, Dec(254, 1000)>>, <<<<"H", "o">>, Dec(566, 10000)>>, <<<<"E", "r">>, Dec(1655, 10000)>>, <<<<"T", "m">>, Dec(255, 10000)>>,
       <<<<"Y", "b">>, Dec(170, 1000)>>, <<<<"L", "u">>, Dec(254, 10000)>>, <<<<"Y">>, Dec(157, 100)>>, <<<<"S", "c">>, Dec(592, 100)>>,
       <<<<"P", "b">>, Dec(247, 100)>> >>

PRIMITIVE_MANTLE_VALUES ==
    << <<<<"B", "a">>, Dec(66, 10)>>, <<<<"R", "b">>, Dec(6, 10)>>, <<<<"C", "s">>, Dec(21, 1000)>>, <<<<"S", "r">>, Dec(199, 10)>>,
       <<<<"K">>, Dec(250, 1)>>, <<<<"T", "h">>, Dec(795, 10000)>>, <<<<"U">>, Dec(203, 10000)>>, <<<<"N", "b">>, Dec(658, 1000)>>,
       <<<<"T", "a">>, Dec(37, 1000)>>, <<<<"L", "a">>, Dec(648, 1000)>>, <<<<"C", "e">>, Dec(1675, 1000)>>, <<<<"P", "r">>, Dec(254, 1000)>>,
       <<<<"N", "d">>, Dec(125, 100)>>, <<<<"S", "m">>, Dec(406, 1000)>>, <<<<"E", "u">>, Dec(154, 1000)>>, <<<<"G", "d">>, Dec(544, 1000)>>,
       <<<<"T", "b">>, Dec(99, 1000)>>, <<<<"D", "y">>, Dec(674, 1000)>>, <<<<"H", "o">>, Dec(149, 1000)>>, <<<<"E", "r">>, Dec(438, 1000)>>,
       <<<<"T", "m">>, Dec(68, 1000)>>, <<<<"Y", "b">>, Dec(441, 1000)>>, <<<<"L", "u">>, Dec(675, 10000)>>, <<<<"Y">>, Dec(43, 10)>>,
       <<<<"Z", "r">>, Dec(105, 10)>>, <<<<"H", "f">>, Dec(283, 1000)>>, <<<<"T", "i">>, Dec(1300, 1)>>, <<<<"P">>, Dec(95, 1)>>,
       <<<<"P", "b">>, Dec(15, 100)>>, <<<<"S", "c">>, Dec(162, 10)>> >>

REE_ELEMENTS ==
    << <<"L", "a">>, <<"C", "e">>, <<"P", "r">>, <<"N", "d">>, <<"S", "m">>, <<"E", "u">>, <<"G", "d">>, <<"T", "b">>, <<"D", "y">>, <<"H", "o">>, <<"E", "r">>, <<"T", "m">>, <<"Y", "b">>, <<"L", "u">> >>

\* norm_values=None
NoTable == <<>>

\* element_name in norm_values
InTable(tbl, e) == \E i \in DOMAIN tbl : tbl[i][1] = e

\* norm_values.get(element_name), for an element of the table
TableGet(tbl, e) == tbl[CHOOSE i \in DOMAIN tbl : tbl[i][1] = e][2]

MW_MGO == Dec(40304, 1000)
MW_FEO == Dec(71844, 1000)

-----------------------------------------------------------------------------
(* get_custom_element_value *)

\* Mutation of mg_number_of: the ratio is not multiplied by 100.
mg_number_of_fraction(feature, field_names, mgo_field, feo_val) ==
    IF mgo_field = None THEN Return(NoneVal)
    ELSE LET m == float(Cell(feature, field_names, mgo_field)) IN
         IF m.exc \in {"ValueError", "TypeError", "ZeroDivisionError"} THEN Return(NoneVal)
         ELSE IF m.exc # "" THEN Raise(m.exc)
         ELSE LET mg_molar == RDiv(m.val, MW_MGO)
                  fe_molar == RDiv(RMul(Dec(9, 10), feo_val), MW_FEO)
                  total == RAdd(mg_molar, fe_molar)
              IN IF ~RPositive(total) THEN Return(NoneVal)
                 ELSE Return(RDiv(mg_molar, total))

\* the Mg# branch after the iron value is known (lines 225-242)
mg_number_of(feature, field_names, mgo_field, feo_val) ==
    IF mgo_field = None THEN Return(NoneVal)
    ELSE LET m == float(Cell(feature, field_names, mgo_field)) IN
         IF m.exc \in {"ValueError", "TypeError", "ZeroDivisionError"} THEN Return(NoneVal)
         ELSE IF m.exc # "" THEN Raise(m.exc)
         ELSE LET mg_molar == RDiv(m.val, MW_MGO)
                  fe_molar == RDiv(RMul(Dec(9, 10), feo_val), MW_FEO)
                  total == RAdd(mg_molar, fe_molar)
              IN IF ~RPositive(total) THEN Return(NoneVal)
                 ELSE Return(RDiv(RMul(R(100), mg_molar), total))

\* Mutation of mg_number: FeOT is looked up before FeO.
mg_number_feot_first(feature, field_names) ==
    LET mgo_field == find_element_field(field_names, <<"M", "g", "O">>)
        feo_first == find_element_field(field_names, <<"F", "e", "O", "T">>)
        feo_field == IF feo_first = None
                     THEN find_element_field(field_names, <<"F", "e", "O">>)
                     ELSE feo_first
    IN IF feo_field = None
       THEN LET fe2o3_field == find_element_field(field_names, <<"F", "e", "2", "O", "3">>) IN
            IF Truthy(fe2o3_field)
            THEN LET f == float(Cell(feature, field_names, fe2o3_field)) IN
                 IF f.exc \in caught_errors THEN Return(NoneVal)
                 ELSE IF f.exc # "" THEN Raise(f.exc)
                 ELSE mg_number_of(feature, field_names, mgo_field,
                                   RMul(f.val, Dec(8998, 10000)))
            ELSE Return(NoneVal)
       ELSE LET f == float(Cell(feature, field_names, feo_field)) IN
            IF f.exc \in caught_errors THEN Return(NoneVal)
            ELSE IF f.exc # "" THEN Raise(f.exc)
            ELSE mg_number_of(feature, field_names, mgo_field, f.val)

\* the Mg# branch (lines 199-242)
mg_number(feature, field_names) ==
    LET mgo_field == find_element_field(field_names, <<"M", "g", "O">>)
        feo_first == find_element_field(field_names, <<"F", "e", "O">>)
        feo_field == IF feo_first = None
                     THEN find_element_field(field_names, <<"F", "e", "O", "T">>)
                     ELSE feo_first
    IN IF feo_field = None
       THEN LET fe2o3_field == find_element_field(field_names, <<"F", "e", "2", "O", "3">>) IN
            IF Truthy(fe2o3_field)
            THEN LET f == float(Cell(feature, field_names, fe2o3_field)) IN
                 IF f.exc \in caught_errors THEN Return(NoneVal)
                 ELSE IF f.exc # "" THEN Raise(f.exc)
                 ELSE mg_number_of(feature, field_names, mgo_field,
                                   RMul(f.val, Dec(8998, 10000)))
            ELSE Return(NoneVal)
       ELSE LET f == float(Cell(feature, field_names, feo_field)) IN
            IF f.exc \in caught_errors THEN Return(NoneVal)
            ELSE IF f.exc # "" THEN Raise(f.exc)
            ELSE mg_number_of(feature, field_names, mgo_field, f.val)

get_custom_element_value(feature, field_names, element_name, normalize, norm_values) ==
    IF element_name = <<"1", " ", "(", "n", "o", "n", "e", ")">> THEN Return(R(1))
    ELSE IF element_name = <<"M", "g", "#">> THEN mg_number(feature, field_names)
    ELSE LET field_name == find_element_field(field_names, element_name) IN
         IF field_name = None THEN Return(NoneVal)
         ELSE LET f == float(Cell(feature, field_names, field_name)) IN
              IF f.exc \in caught_errors THEN Return(NoneVal)
              ELSE IF f.exc # "" THEN Raise(f.exc)
              ELSE IF /\ normalize
                      /\ norm_values # NoTable
                      /\ InTable(norm_values, element_name)
                      /\ RPositive(TableGet(norm_values, element_name))
                   THEN Return(RDiv(f.val, TableGet(norm_values, element_name)))
                   ELSE Return(f.val)

-----------------------------------------------------------------------------
(* Inputs of the resolver specification *)

ResolveSymbols == oxide_keys \cup {<<"Z", "r">>, <<"N", "b">>, <<"C">>, <<"M", "g", "O">>, <<"F", "e", "O">>}

\* spellings around a symbol: exact candidates, prefix-scan-only spellings,
\* a spelling outside the allow-list, its oxide forms, and foreign columns
FieldPool(e) ==
    { e, upper(e), e \o <<"_", "p", "p", "m">>, upper(e) \o <<"_", "P", "P", "M">>,
      lower(e) \o <<"_", "p", "c", "t">>, e \o <<"_", "w", "t", "%">>, upper(e) \o <<"O", "_", "p", "c", "t">>, e \o <<"_", "e", "r", "r">>,
      <<"C", "o", "_", "p", "c", "t">>, <<"N", "b", "_", "p", "p", "m">> }
    \cup (IF e \in oxide_keys THEN {oxide_forms(e)[i] : i \in DOMAIN oxide_forms(e)} ELSE {})

\* ordered schemas without repeated names, of at most n fields
Schemas(pool, n) ==
    UNION { { s \in [1..k -> pool] : \A i, j \in 1..k : i # j => s[i] # s[j] } : k \in 0..n }

-----------------------------------------------------------------------------
(* GeochemPlottingPlugin (geochem_plotting.py) *)

\* the plugin object and what it has done to the QGIS window
Plugin ==
    [pluginIsActive |-> pluginIsActive, dock_widget |-> dock_widget, toolbar |-> toolbar,
     connected |-> connected, dock_visible |-> dock_visible, dock_added |-> dock_added,
     dock_tabbed |-> dock_tabbed, n_docks |-> n_docks, exc |-> ""]

\* __init__: no dock widget, not active
plugin_init ==
    [pluginIsActive |-> FALSE, dock_widget |-> 0, toolbar |-> TRUE, connected |-> FALSE,
     dock_visible |-> FALSE, dock_added |-> FALSE, dock_tabbed |-> FALSE, n_docks |-> 0,
     exc |-> ""]

\* the branch of run() taken when the plugin is not active: the widget is
\* created and connected if there is none, added to the window and shown
run_activate(p, others) ==
    IF p.dock_widget = 0
    THEN [p EXCEPT !.pluginIsActive = TRUE, !.dock_widget = p.n_docks + 1,
                   !.n_docks = p.n_docks + 1, !.connected = TRUE, !.dock_added = TRUE,
                   !.dock_tabbed = (others > 0), !.dock_visible = TRUE]
    ELSE [p EXCEPT !.pluginIsActive = TRUE, !.dock_added = TRUE,
                   !.dock_tabbed = (others > 0), !.dock_visible = TRUE]

\* the last statement of run(): self.dock_widget.show()
run_show(p) ==
    IF p.dock_widget = 0 THEN [p EXCEPT !.exc = "AttributeError"]
    ELSE [p EXCEPT !.dock_visible = TRUE]

\* run() with `others` dock widgets of other plugins in the right dock area
run(p, others) ==
    IF ~p.pluginIsActive THEN run_show(run_activate(p, others))
    ELSE run_show([p EXCEPT !.dock_added = FALSE, !.dock_tabbed = FALSE])

onClosePlugin(p) ==
    IF p.dock_widget # 0 THEN [p EXCEPT !.connected = FALSE, !.pluginIsActive = FALSE]
    ELSE [p EXCEPT !.pluginIsActive = FALSE]

\* GeochemistryDockWidget.closeEvent: closingPlugin is emitted to the slots
\* connected to it, and the widget is hidden
closeEvent(p) ==
    IF p.connected THEN [onClosePlugin(p) EXCEPT !.dock_visible = FALSE]
    ELSE [p EXCEPT !.dock_visible = FALSE]

\* unload(): `del self.toolbar` raises when the attribute is gone; the dock
\* widget is removed from the window and forgotten
unload(p) ==
    IF ~p.toolbar THEN [p EXCEPT !.exc = "AttributeError"]
    ELSE IF p.dock_widget # 0
    THEN [p EXCEPT !.toolbar = FALSE, !.dock_widget = 0, !.connected = FALSE,
                   !.dock_visible = FALSE]
    ELSE [p EXCEPT !.toolbar = FALSE]

\* the plugin object is in state p
PluginIs(p) ==
    /\ pluginIsActive = p.pluginIsActive
    /\ dock_widget = p.dock_widget
    /\ toolbar = p.toolbar
    /\ connected = p.connected
    /\ dock_visible = p.dock_visible
    /\ dock_added = p.dock_added
    /\ dock_tabbed = p.dock_tabbed
    /\ n_docks = p.n_docks

\* the dock widget is open: the plugin has been constructed and run once
PluginRunning ==
    /\ PluginIs(run(plugin_init, 0))
    /\ other_docks = 0

\* tables loaded with a zero in the first entry of the chondrite table
TablesLoadedWithZero ==
    /\ chondrite_values = [CHONDRITE_VALUES EXCEPT ![1][2] = R(0)]
    /\ primitive_mantle_values = PRIMITIVE_MANTLE_VALUES

\* the module has been imported
TablesLoaded ==
    /\ chondrite_values = CHONDRITE_VALUES
    /\ primitive_mantle_values = PRIMITIVE_MANTLE_VALUES

\* no function or handler has left an outcome
NoOutcome ==
    /\ op = "init"
    /\ ret_field = None
    /\ ret_val = NoneVal
    /\ exc = ""
    /\ ret_coords = <<>>

\* no function has been applied yet
NoResultYet ==
    /\ NoOutcome
    /\ TablesLoaded
    /\ PluginRunning

NoCallYet ==
    /\ NoResultYet
    /\ abc = <<>>
    /\ sample_names = <<>>

\* GeochemistryDockWidget.__init__ and setup_ui: no figure, the combo boxes of
\* the Custom XY tab on their first item, REE normalization "None", nothing
\* selected
PanelConstructed ==
    /\ selected = <<>>
    /\ x_num = <<"C", "o">>
    /\ x_denom = <<"1", " ", "(", "n", "o", "n", "e", ")">>
    /\ y_num = <<"C", "o">>
    /\ y_denom = <<"1", " ", "(", "n", "o", "n", "e", ")">>
    /\ ree_norm_id = 0
    /\ current_fig = 0
    /\ n_figs = 0
    /\ saved_fig = 0
    /\ message = ""
    /\ missing_elements = <<>>
    /\ x_data = <<>>
    /\ y_data = <<>>
    /\ valid_count = 0
    /\ data = <<>>
    /\ plot_data = <<>>
    /\ category_colors = <<>>
    /\ sample_colors = <<>>
    /\ unique_categories = <<>>
    /\ category_markers = <<>>
    /\ sample_markers = <<>>
    /\ drawn = <<>>
    /\ order_index = 0
    /\ norm_index = 0

\* the diagram combo box on its first item
WidgetConstructed ==
    /\ PanelConstructed
    /\ diagram = "Wilson1989_TAS"

\* the specifications of the lookup functions leave the widget alone
WidgetIdle ==
    /\ WidgetConstructed
    /\ has_layer = TRUE
    /\ tab = 0
    /\ id_field = <<>>

InitResolve ==
    /\ WidgetIdle
    /\ element \in ResolveSymbols
    /\ fields \in Schemas(FieldPool(element), MaxFields)
    /\ feats = <<>>
    /\ convert_to_ppm = TRUE
    /\ arg_normalize = FALSE
    /\ norm_id = 0
    /\ NoCallYet

FindElementField ==
    /\ op = "init"
    /\ op' = "find_element_field"
    /\ ret_field' = find_element_field(fields, element)
    /\ UNCHANGED <<layerVars, widgetVars, element, convert_to_ppm, arg_normalize, norm_id,
                   abc, ret_val, exc, ret_coords>>

NextResolve == FindElementField

SpecResolve == InitResolve /\ [][NextResolve]_vars

-----------------------------------------------------------------------------
(* Claims about find_element_field, checked under SpecResolve *)

InSchema(name) == InList(name, fields)

Resolved == op = "find_element_field"

\* positions of the candidate list `cands` that are schema fields
Hits(cands) == { i \in DOMAIN cands : InSchema(cands[i]) }

Earliest(cands) == cands[CHOOSE i \in Hits(cands) : \A j \in Hits(cands) : i <= j]

\* C1: the result is the earliest entry of the candidate list (direct spellings,
\* then the oxide forms of the symbol) that equals, character for character, a
\* schema field; the position of the field in the schema plays no role and a
\* direct spelling wins over an oxide form (schema {TiO2_pct, Ti_ppm}, Ti -> Ti_ppm).
C1_ExactTierEarliestCandidate ==
    Resolved =>
        /\ Hits(direct_patterns(element)) # {}
              => ret_field = Earliest(direct_patterns(element))
        /\ (Hits(direct_patterns(element)) = {} /\ element \in oxide_keys
                /\ Hits(oxide_forms(element)) # {})
              => ret_field = Earliest(oxide_forms(element))
        /\ (element = <<"T", "i">> /\ InSchema(<<"T", "i", "O", "2", "_", "p", "c", "t">>) /\ InSchema(<<"T", "i", "_", "p", "p", "m">>)
                /\ Len(fields) = 2)
              => ret_field = <<"T", "i", "_", "p", "p", "m">>

C1_Witness ==
    /\ Resolved
    /\ element = <<"T", "i">>
    /\ fields = <<<<"T", "i", "O", "2", "_", "p", "c", "t">>, <<"T", "i", "_", "p", "p", "m">>>>
    /\ ret_field = <<"T", "i", "_", "p", "p", "m">>

\* C2: for every symbol with an oxide form and every schema whose only field is
\* one of the oxide spellings of that symbol, the result is that field.
C2_OxideOnlySchemaResolves ==
    (Resolved /\ element \in oxide_keys /\ Len(fields) = 1
        /\ InList(fields[1], oxide_forms(element)))
      => ret_field = fields[1]

C2_Witness ==
    /\ Resolved
    /\ element = <<"T", "i">>
    /\ fields = <<<<"T", "i", "O", "2", "_", "w", "t">>>>
    /\ ret_field = <<"T", "i", "O", "2", "_", "w", "t">>

\* field j of the schema starts (upper-cased) with the upper-cased symbol and
\* the rest of its upper-cased name is an allow-listed suffix
AllowedPrefixField(j) ==
    /\ startswith(upper(fields[j]), upper(element))
    /\ SliceFrom(upper(fields[j]), Len(element))
          \in { suffix_allow_list[k] : k \in DOMAIN suffix_allow_list }

\* C3: when no candidate of the exact tier is a schema field, the result is the
\* first field in schema order with an allow-listed remainder after the symbol,
\* and None when no field has one.
C3_PrefixScanFirstAllowed ==
    (Resolved /\ Hits(patterns(element)) = {}) =>
        LET ok == { j \in DOMAIN fields : AllowedPrefixField(j) } IN
        IF ok = {} THEN ret_field = None
        ELSE \E j \in ok : /\ \A k \in ok : j <= k
                            /\ ret_field = fields[j]

C3_Witness ==
    /\ Resolved
    /\ element = <<"T", "i">>
    /\ fields = <<<<"T", "i", "_", "e", "r", "r">>, <<"T", "i", "_", "w", "t", "%">>>>
    /\ ret_field = <<"T", "i", "_", "w", "t", "%">>

-----------------------------------------------------------------------------
(* get_element_value applied to one feature *)

ValueSymbols == {<<"T", "i">>, <<"M", "n">>, <<"P">>, <<"K">>, <<"Z", "r">>, <<"T", "i", "O", "2">>}

\* an element-ppm column, a weight-percent column found by the prefix scan,
\* and the upper-case percent, weight and bare oxide columns of the symbol
ValuePool(e) ==
    { e \o <<"_", "p", "p", "m">>, e \o <<"_", "w", "t", "%">> }
    \cup (IF e \in oxide_keys THEN { oxide_forms(e)[i] : i \in {2, 3, 4} } ELSE {})

ValueCells ==
    { NullCell, StrCell(<<>>), StrCell(<<"a", "b", "c">>), StrCell(<<" ", "1", "0", ".", "0", " ">>), StrCell(<<"-", "2", ".", "5">>),
      NumCell(R(10)) }

\* one feature for a schema: a cell per field
Rows(schema, cells) == [1..Len(schema) -> cells]

InitValue ==
    /\ WidgetIdle
    /\ element \in ValueSymbols
    /\ fields \in Schemas(ValuePool(element), MaxFields)
    /\ feats \in { <<row>> : row \in Rows(fields, ValueCells) }
    /\ convert_to_ppm \in BOOLEAN
    /\ arg_normalize = FALSE
    /\ norm_id = 0
    /\ NoCallYet

GetElementValue ==
    /\ op = "init"
    /\ op' = "get_element_value"
    /\ LET r == get_element_value(feats[1], fields, element, convert_to_ppm) IN
       /\ ret_val' = r.val
       /\ exc' = r.exc
    /\ UNCHANGED <<layerVars, widgetVars, element, convert_to_ppm, arg_normalize, norm_id,
                   abc, ret_field, ret_coords>>

NextValue == GetElementValue

SpecValue == InitValue /\ [][NextValue]_vars

-----------------------------------------------------------------------------
(* Claims about get_element_value, checked under SpecValue *)

ValueLookedUp == op = "get_element_value"

\* the field the symbol resolves to, and the cell of the feature under it
ResolvedField == find_element_field(fields, element)
ResolvedCell == feats[1][IndexOf(fields, ResolvedField)]

\* the number a cell of the model stands for: numbers, " 10.0 " and "-2.5"
CellIsNumber(c) == c.t = "num" \/ c = StrCell(<<" ", "1", "0", ".", "0", " ">>) \/ c = StrCell(<<"-", "2", ".", "5">>)
CellNumber(c) ==
    CASE c.t = "num" -> c.v
      [] c = StrCell(<<" ", "1", "0", ".", "0", " ">>) -> R(10)
      [] c = StrCell(<<"-", "2", ".", "5">>) -> Dec(-25, 10)

NamesOxidePercent(field_upper, oxide) ==
    /\ Contains(field_upper, oxide)
    /\ Contains(field_upper, <<"P", "C", "T">>) \/ Contains(field_upper, <<"W", "T">>)

\* C4: the parsed cell is multiplied by 5995, 7745 or 4364 exactly when
\* convert_to_ppm is true and the upper-cased resolved field name contains TIO2,
\* MNO or P2O5 together with PCT or WT; in every other case (convert_to_ppm
\* false, K2O and other columns) the parsed value is returned unchanged.
C4_ThreeOxideConversionsOnly ==
    (ValueLookedUp /\ ResolvedField # None /\ CellIsNumber(ResolvedCell)) =>
        LET fu == upper(ResolvedField)
            raw == CellNumber(ResolvedCell)
            ti == convert_to_ppm /\ NamesOxidePercent(fu, <<"T", "I", "O", "2">>)
            mn == convert_to_ppm /\ NamesOxidePercent(fu, <<"M", "N", "O">>)
            p  == convert_to_ppm /\ NamesOxidePercent(fu, <<"P", "2", "O", "5">>)
        IN /\ (ti /\ ~mn /\ ~p) => ret_val = RMul(raw, R(5995))
           /\ (mn /\ ~ti /\ ~p) => ret_val = RMul(raw, R(7745))
           /\ (p /\ ~ti /\ ~mn) => ret_val = RMul(raw, R(4364))
           /\ (~ti /\ ~mn /\ ~p) => ret_val = raw
           /\ (ResolvedField = <<"P", "2", "O", "5", "_", "P", "C", "T">> /\ raw = R(10))
                => ret_val = IF convert_to_ppm THEN R(43640) ELSE R(10)

C4_Witness ==
    /\ ValueLookedUp
    /\ element = <<"P">>
    /\ ResolvedField = <<"P", "2", "O", "5", "_", "P", "C", "T">>
    /\ ResolvedCell = NumCell(R(10))
    /\ convert_to_ppm
    /\ ret_val = R(43640)

\* C5: get_element_value never raises; it returns None when the symbol resolves
\* to no field, when the cell is null or blank and when the cell is no number,
\* and a number otherwise.
C5_ValueLookupNeverRaises ==
    ValueLookedUp =>
        /\ exc = ""
        /\ ResolvedField = None => ret_val = NoneVal
        /\ (ResolvedField # None /\ ~CellIsNumber(ResolvedCell)) => ret_val = NoneVal
        /\ (ResolvedField # None /\ CellIsNumber(ResolvedCell)) => ret_val # NoneVal

C5_Witness ==
    /\ ValueLookedUp
    /\ ResolvedField # None
    /\ ResolvedCell = NullCell
    /\ ret_val = NoneVal
    /\ exc = ""

-----------------------------------------------------------------------------
(* get_custom_element_value applied to one feature *)

MgPool == << <<"M", "g", "O", "_", "p", "c", "t">>, <<"F", "e", "O", "_", "p", "c", "t">>, <<"F", "e", "O", "T", "_", "p", "c", "t">>, <<"F", "e", "2", "O", "3", "_", "p", "c", "t">> >>

\* The cell values are chosen so that every exact result fits the integers of
\* the model checker; with the factor 0.8998 the Fe2O3 column needs its own.
CustomCells ==
    { NullCell, StrCell(<<"a", "b", "c">>), NumCell(R(-1)), NumCell(R(0)), NumCell(R(8)),
      NumCell(R(10)) }

Fe2O3Cells == { NullCell, StrCell(<<"a", "b", "c">>), NumCell(R(-50)), NumCell(R(0)), NumCell(R(50)) }

CustomCellsOf(field) == IF field = <<"F", "e", "2", "O", "3", "_", "p", "c", "t">> THEN Fe2O3Cells ELSE CustomCells

CustomRows(schema) ==
    { row \in [1..Len(schema) -> CustomCells \cup Fe2O3Cells] :
        \A i \in 1..Len(schema) : row[i] \in CustomCellsOf(schema[i]) }

\* the schemas that hold some of the columns of `pool`, in the order of `pool`
RECURSIVE Pick(_, _, _)
Pick(pool, chosen, i) ==
    IF i > Len(pool) THEN <<>>
    ELSE (IF i \in chosen THEN <<pool[i]>> ELSE <<>>) \o Pick(pool, chosen, i + 1)

SubSchemas(pool) == { Pick(pool, chosen, 1) : chosen \in SUBSET DOMAIN pool }

InitCustom ==
    /\ WidgetIdle
    /\ element = <<"M", "g", "#">>
    /\ fields \in SubSchemas(MgPool)
    /\ feats \in { <<row>> : row \in CustomRows(fields) }
    /\ convert_to_ppm = TRUE
    /\ arg_normalize = FALSE
    /\ norm_id = 0
    /\ NoCallYet

\* the table the caller passes as norm_values
NormTable(id) ==
    CASE id = 0 -> NoTable
      [] id = 1 -> chondrite_values
      [] id = 2 -> primitive_mantle_values

GetCustomElementValue ==
    /\ op = "init"
    /\ op' = "get_custom_element_value"
    /\ LET r == get_custom_element_value(feats[1], fields, element, arg_normalize,
                                         NormTable(norm_id)) IN
       /\ ret_val' = r.val
       /\ exc' = r.exc
    /\ UNCHANGED <<layerVars, widgetVars, element, convert_to_ppm, arg_normalize, norm_id,
                   abc, ret_field, ret_coords>>

NextCustom == GetCustomElementValue

SpecCustom == InitCustom /\ [][NextCustom]_vars

-----------------------------------------------------------------------------
(* Claims about Mg#, checked under SpecCustom *)

MgAsked == op = "get_custom_element_value" /\ element = <<"M", "g", "#">>

CellAt(name) == feats[1][IndexOf(fields, name)]

\* the column holds a number in the feature
Holds(name) == InSchema(name) /\ CellAt(name).t = "num"

\* the iron column by preference FeO, FeOT, Fe2O3, and its FeO equivalent
IronColumn ==
    IF InSchema(<<"F", "e", "O", "_", "p", "c", "t">>) THEN <<"F", "e", "O", "_", "p", "c", "t">>
    ELSE IF InSchema(<<"F", "e", "O", "T", "_", "p", "c", "t">>) THEN <<"F", "e", "O", "T", "_", "p", "c", "t">>
    ELSE IF InSchema(<<"F", "e", "2", "O", "3", "_", "p", "c", "t">>) THEN <<"F", "e", "2", "O", "3", "_", "p", "c", "t">>
    ELSE None

IronValue ==
    IF IronColumn = <<"F", "e", "2", "O", "3", "_", "p", "c", "t">>
    THEN RMul(CellAt(IronColumn).v, Dec(8998, 10000))
    ELSE CellAt(IronColumn).v

MolarMg(mgo) == RDiv(mgo, Dec(40304, 1000))
MolarFe(feo) == RDiv(RMul(Dec(9, 10), feo), Dec(71844, 1000))
MgNumber(mgo, feo) ==
    RDiv(RMul(R(100), MolarMg(mgo)), RAdd(MolarMg(mgo), MolarFe(feo)))

\* |v - 61.3| <= 0.1
Near61_3(v) == /\ v # NoneVal
               /\ ~RLess(v, Dec(612, 10))
               /\ ~RLess(Dec(614, 10), v)

\* C6: Mg# is 100*(MgO/40.304)/((MgO/40.304) + 0.9*FeO/71.844) when MgO and an
\* iron column resolve, both cells are numbers and the denominator is > 0
\* (MgO 8.0, FeO 10.0 give 61.3 within 0.1); it is None, and nothing is raised,
\* when MgO is unresolved, a required cell is null or no number, or the
\* denominator is <= 0.
C6_MgNumberFormula ==
    MgAsked =>
        /\ exc = ""
        /\ ~InSchema(<<"M", "g", "O", "_", "p", "c", "t">>) => ret_val = NoneVal
        /\ (InSchema(<<"M", "g", "O", "_", "p", "c", "t">>) /\ ~Holds(<<"M", "g", "O", "_", "p", "c", "t">>)) => ret_val = NoneVal
        /\ (IronColumn # None /\ ~Holds(IronColumn)) => ret_val = NoneVal
        /\ (Holds(<<"M", "g", "O", "_", "p", "c", "t">>) /\ IronColumn # None /\ Holds(IronColumn)) =>
              LET mgo == CellAt(<<"M", "g", "O", "_", "p", "c", "t">>).v
                  denominator == RAdd(MolarMg(mgo), MolarFe(IronValue))
              IN IF RPositive(denominator)
                 THEN ret_val = MgNumber(mgo, IronValue)
                 ELSE ret_val = NoneVal
        /\ (Holds(<<"M", "g", "O", "_", "p", "c", "t">>) /\ Holds(<<"F", "e", "O", "_", "p", "c", "t">>)
                /\ CellAt(<<"M", "g", "O", "_", "p", "c", "t">>).v = R(8) /\ CellAt(<<"F", "e", "O", "_", "p", "c", "t">>).v = R(10))
              => Near61_3(ret_val)

C6_Witness ==
    /\ MgAsked
    /\ fields = <<<<"M", "g", "O", "_", "p", "c", "t">>, <<"F", "e", "O", "_", "p", "c", "t">>>>
    /\ feats[1] = <<NumCell(R(8)), NumCell(R(10))>>
    /\ Near61_3(ret_val)

\* the Mg# of the feature with the cell of `column`, scaled by `factor`, as FeO
MgWithIron(column, factor) ==
    /\ Holds(column)
    /\ LET mgo == CellAt(<<"M", "g", "O", "_", "p", "c", "t">>).v
           feo == RMul(CellAt(column).v, factor)
       IN /\ RPositive(RAdd(MolarMg(mgo), MolarFe(feo)))
          /\ ret_val = MgNumber(mgo, feo)

\* C7: the iron input is the FeO column if FeO resolves, else the FeOT column,
\* else the Fe2O3 column with its value multiplied by 0.8998; with none of the
\* three the result is None.  A schema holding only an FeOT column is resolved
\* by the FeOT lookup, not by the FeO lookup.
C7_IronPreferenceOrder ==
    /\ find_element_field(<<<<"F", "e", "O", "T", "_", "p", "c", "t">>>>, <<"F", "e", "O">>) = None
    /\ find_element_field(<<<<"F", "e", "O", "T", "_", "p", "c", "t">>>>, <<"F", "e", "O", "T">>) = <<"F", "e", "O", "T", "_", "p", "c", "t">>
    /\ MgAsked =>
        /\ (~InSchema(<<"F", "e", "O", "_", "p", "c", "t">>) /\ ~InSchema(<<"F", "e", "O", "T", "_", "p", "c", "t">>) /\ ~InSchema(<<"F", "e", "2", "O", "3", "_", "p", "c", "t">>))
              => ret_val = NoneVal
        /\ (Holds(<<"M", "g", "O", "_", "p", "c", "t">>) /\ ret_val # NoneVal) =>
              /\ InSchema(<<"F", "e", "O", "_", "p", "c", "t">>) => MgWithIron(<<"F", "e", "O", "_", "p", "c", "t">>, R(1))
              /\ (~InSchema(<<"F", "e", "O", "_", "p", "c", "t">>) /\ InSchema(<<"F", "e", "O", "T", "_", "p", "c", "t">>))
                    => MgWithIron(<<"F", "e", "O", "T", "_", "p", "c", "t">>, R(1))
              /\ (~InSchema(<<"F", "e", "O", "_", "p", "c", "t">>) /\ ~InSchema(<<"F", "e", "O", "T", "_", "p", "c", "t">>))
                    => MgWithIron(<<"F", "e", "2", "O", "3", "_", "p", "c", "t">>, Dec(8998, 10000))

C7_Witness ==
    /\ MgAsked
    /\ fields = <<<<"M", "g", "O", "_", "p", "c", "t">>, <<"F", "e", "2", "O", "3", "_", "p", "c", "t">>>>
    /\ feats[1] = <<NumCell(R(8)), NumCell(R(50))>>
    /\ ret_val = MgNumber(R(8), Dec(44990, 1000))
    /\ ret_val # MgNumber(R(8), R(50))

\* ---------------------------------------------------------------------------
\* Categorical colour mapping
\* ---------------------------------------------------------------------------

CATEGORY_MARKERS == <<"o", "s", "^", "D", "v", "<", ">", "p", "h", "*", "P", "X", "d", "8", "H">>

\* list(dict.fromkeys(lst)), built from position i on
RECURSIVE fromkeys_from(_, _, _)
fromkeys_from(lst, i, keys) ==
    IF i > Len(lst) THEN keys
    ELSE fromkeys_from(lst, i + 1, IF InList(lst[i], keys) THEN keys ELSE Append(keys, lst[i]))

\* keys in the order of their last appearance
RECURSIVE fromkeys_last(_, _)
fromkeys_last(lst, keys) ==
    IF lst = <<>> THEN keys
    ELSE fromkeys_last(SubSeq(lst, 1, Len(lst) - 1),
                       IF InList(lst[Len(lst)], keys) THEN keys ELSE <<lst[Len(lst)]>> \o keys)

unique_in_last_order(lst) == fromkeys_last(lst, <<>>)

unique_in_order(lst) == fromkeys_from(lst, 1, <<>>)

\* cmap(x) of a listed colormap of N colours, x in [0, 1]: the entry int(x * N),
\* entry N - 1 at x = 1; a colour is the pair of its palette and its entry
listed_color(cmap, N, x) ==
    <<cmap, IF (x[1] * N) \div x[2] >= N THEN N - 1 ELSE (x[1] * N) \div x[2]>>

\* a choice of the palette that leaves the 10-colour palette at 10 labels
palette_below_threshold(n_categories, i) ==
    IF n_categories < 10 THEN listed_color("tab10", 10, Dec(i, 10))
    ELSE IF n_categories < 20 THEN listed_color("tab20", 20, Dec(i, 20))
    ELSE listed_color("turbo", 256, Dec(i, n_categories))

\* colors[i] for i in range(n_categories)
palette_color(n_categories, i) ==
    IF n_categories <= 10 THEN listed_color("tab10", 10, Dec(i, 10))
    ELSE IF n_categories <= 20 THEN listed_color("tab20", 20, Dec(i, 20))
    ELSE listed_color("turbo", 256, Dec(i, n_categories))

\* d[key] of a dict
dict_get(d, key) == d[CHOOSE i \in DOMAIN d : d[i][1] = key][2]

\* the five values returned, from the unique categories and the two dicts
color_map_of(names, categories, colors, markers) ==
    [category_colors |-> colors,
     sample_colors |-> [k \in DOMAIN names |-> dict_get(colors, names[k])],
     unique_categories |-> categories,
     category_markers |-> markers,
     sample_markers |-> [k \in DOMAIN names |-> dict_get(markers, names[k])]]

\* the two dicts of the unique categories
color_map_over(names, categories) ==
    color_map_of(names, categories,
        [i \in DOMAIN categories |-> <<categories[i], palette_color(Len(categories), i - 1)>>],
        [i \in DOMAIN categories |->
            <<categories[i], CATEGORY_MARKERS[((i - 1) % Len(CATEGORY_MARKERS)) + 1]>>])

create_categorical_color_map(names) ==
    color_map_over(names, unique_in_order(names))

\* str(n) of an int n >= 0
RECURSIVE str_int(_)
str_int(n) == IF n < 10 THEN <<Digits[n + 1]>> ELSE Append(str_int(n \div 10), Digits[(n % 10) + 1])

\* ---- specification: create_categorical_color_map on one list of labels ----

\* unique labels of the longest list
MaxCategories == 22

\* short lists over three labels, and lists that name up to MaxCategories
\* labels once each, with one more label in front or at the end
ShortLabels == { <<"A">>, <<"B">>, <<"C">> }

ManyLabels == { str_int(i) : i \in 1..MaxCategories }

AtMostOne(S) == { <<>> } \cup { <<x>> : x \in S }

LabelLists ==
    UNION { [1..k -> ShortLabels] : k \in 0..4 }
    \cup { (head \o [i \in 1..n |-> str_int(i)]) \o last :
             head \in AtMostOne(ManyLabels), n \in 0..MaxCategories, last \in AtMostOne(ManyLabels) }

InitColors ==
    /\ WidgetIdle
    /\ fields = <<>>
    /\ feats = <<>>
    /\ element = <<>>
    /\ convert_to_ppm = TRUE
    /\ arg_normalize = FALSE
    /\ norm_id = 0
    /\ NoResultYet
    /\ abc = <<>>
    /\ sample_names \in LabelLists

CreateCategoricalColorMap ==
    /\ op = "init"
    /\ op' = "create_categorical_color_map"
    /\ \E r \in { create_categorical_color_map(sample_names) } :
         /\ category_colors' = r.category_colors
         /\ sample_colors' = r.sample_colors
         /\ unique_categories' = r.unique_categories
         /\ category_markers' = r.category_markers
         /\ sample_markers' = r.sample_markers
    /\ UNCHANGED <<layerVars, element, convert_to_ppm, arg_normalize, norm_id, abc, ret_field,
                   ret_val, exc, ret_coords, has_layer, selected, comboVars, figVars, outVars,
                   sample_names, data, plot_data, drawn>>

NextColors == CreateCategoricalColorMap

SpecColors == InitColors /\ [][NextColors]_vars

\* ---------------------------------------------------------------------------

\* Ternary transform
\* ---------------------------------------------------------------------------

\* np.nan
NaN == <<"nan">>

\* the float q * sqrt(3), kept as its rational factor q
Sqrt3Times(q) == <<"sqrt3", q>>

\* the point of the fractions b and c of the total
ternary_point(b, c) ==
    << RMul(Dec(1, 2), RAdd(RMul(R(2), b), c)), Sqrt3Times(RMul(Dec(1, 2), c)) >>

\* a / total, b / total, c / total, for a total other than 0
ternary_fractions(a, b, c) ==
    << RDiv(a, RAdd(RAdd(a, b), c)), RDiv(b, RAdd(RAdd(a, b), c)),
       RDiv(c, RAdd(RAdd(a, b), c)) >>

\* a transform that projects b and c without dividing them by the total
ternary_to_cartesian_unnormalized(a, b, c) ==
    IF RAdd(RAdd(a, b), c) = R(0) THEN <<NaN, NaN>>
    ELSE ternary_point(b, c)

ternary_to_cartesian(a, b, c) ==
    IF RAdd(RAdd(a, b), c) = R(0) THEN <<NaN, NaN>>
    ELSE ternary_point(ternary_fractions(a, b, c)[2], ternary_fractions(a, b, c)[3])

\* ---- specification: ternary_to_cartesian on one triple ----

TernaryComponents == { R(0), R(1), R(2), R(5), R(8), Dec(1, 2), Dec(-1, 2) }

InitTernary ==
    /\ WidgetIdle
    /\ fields = <<>>
    /\ feats = <<>>
    /\ element = <<>>
    /\ convert_to_ppm = TRUE
    /\ arg_normalize = FALSE
    /\ norm_id = 0
    /\ NoResultYet
    /\ sample_names = <<>>
    /\ abc \in TernaryComponents \X TernaryComponents \X TernaryComponents

TernaryToCartesian ==
    /\ op = "init"
    /\ op' = "ternary_to_cartesian"
    /\ ret_coords' = ternary_to_cartesian(abc[1], abc[2], abc[3])
    /\ UNCHANGED <<layerVars, widgetVars, element, convert_to_ppm, arg_normalize, norm_id,
                   abc, ret_field, ret_val, exc>>

NextTernary == TernaryToCartesian

SpecTernary == InitTernary /\ [][NextTernary]_vars

\* ---------------------------------------------------------------------------

\* Discrimination diagrams
\* ---------------------------------------------------------------------------

\* the classes of DISCRIMINATION_DIAGRAMS, in the order of the combo box
DISCRIMINATION_DIAGRAMS ==
    << "Wilson1989_TAS", "Cox1979_TAS", "Pearce1996_NbY_ZrTi", "Meschede1986_Ternary",
       "Pearce1984_YNb", "Pearce1984_YNbRb", "PearceCann1973_ZrTi" >>

\* the symbols a class passes to get_element_value, in the order of the calls
lookups(cls) ==
    CASE cls = "Pearce1996_NbY_ZrTi" -> << <<"Z", "r">>, <<"T", "i">>, <<"N", "b">>, <<"Y">> >>
      [] cls = "Meschede1986_Ternary" -> << <<"Z", "r">>, <<"N", "b">>, <<"Y">> >>
      [] cls = "Pearce1984_YNb" -> << <<"N", "b">>, <<"Y">> >>
      [] cls = "Pearce1984_YNbRb" -> << <<"Y">>, <<"N", "b">>, <<"R", "b">> >>
      [] cls = "PearceCann1973_ZrTi" -> << <<"Z", "r">>, <<"T", "i", "O", "2">> >>
      [] cls = "Wilson1989_TAS" -> << <<"N", "a", "2", "O">>, <<"K", "2", "O">>, <<"S", "i", "O", "2">> >>
      [] cls = "Cox1979_TAS" -> << <<"N", "a", "2", "O">>, <<"K", "2", "O">>, <<"S", "i", "O", "2">> >>

\* a test that asks v > 0 of every class
usable_strictly_positive(cls, v) == v # NoneVal /\ RPositive(v)

\* the test of the `if`: v is not None and v > 0, for the ternary v >= 0
usable(cls, v) ==
    /\ v # NoneVal
    /\ IF cls = "Meschede1986_Ternary" THEN ~RLess(v, R(0)) ELSE RPositive(v)

\* Nb vs Y returned as (Nb, Y)
coordinates_named_order(cls, v) ==
    CASE cls = "Pearce1996_NbY_ZrTi" -> <<RDiv(v[3], v[4]), RDiv(v[1], v[2])>>
      [] cls = "Meschede1986_Ternary" -> <<RDiv(v[1], R(4)), v[3], RMul(v[2], R(2))>>
      [] cls = "Pearce1984_YNb" -> <<v[1], v[2]>>
      [] cls = "Pearce1984_YNbRb" -> <<RAdd(v[1], v[2]), v[3]>>
      [] cls = "PearceCann1973_ZrTi" -> <<v[1], v[2]>>
      [] cls = "Wilson1989_TAS" -> <<v[3], RAdd(v[1], v[2])>>
      [] cls = "Cox1979_TAS" -> <<v[3], RAdd(v[1], v[2])>>

\* the tuple returned on usable values v (v[i] is the value of lookups(cls)[i])
coordinates(cls, v) ==
    CASE cls = "Pearce1996_NbY_ZrTi" -> <<RDiv(v[3], v[4]), RDiv(v[1], v[2])>>
      [] cls = "Meschede1986_Ternary" -> <<RDiv(v[1], R(4)), v[3], RMul(v[2], R(2))>>
      [] cls = "Pearce1984_YNb" -> <<v[2], v[1]>>
      [] cls = "Pearce1984_YNbRb" -> <<RAdd(v[1], v[2]), v[3]>>
      [] cls = "PearceCann1973_ZrTi" -> <<v[1], v[2]>>
      [] cls = "Wilson1989_TAS" -> <<v[3], RAdd(v[1], v[2])>>
      [] cls = "Cox1979_TAS" -> <<v[3], RAdd(v[1], v[2])>>

\* the tuple returned otherwise
no_coordinates(cls) ==
    IF cls = "Meschede1986_Ternary" THEN <<NoneVal, NoneVal, NoneVal>> ELSE <<NoneVal, NoneVal>>

\* the `if` and the two returns, on the results of the lookups
coordinates_from(cls, results) ==
    IF \E i \in DOMAIN results : results[i].exc # ""
    THEN Raise(results[CHOOSE i \in DOMAIN results :
                           /\ results[i].exc # ""
                           /\ \A j \in 1..(i - 1) : results[j].exc = ""].exc)
    ELSE IF \A i \in DOMAIN results : usable(cls, results[i].val)
    THEN [exc |-> "", val |-> coordinates(cls, [i \in DOMAIN results |-> results[i].val])]
    ELSE [exc |-> "", val |-> no_coordinates(cls)]

calculate_coordinates(cls, feature, field_names) ==
    coordinates_from(cls, [i \in DOMAIN lookups(cls) |->
                              get_element_value(feature, field_names, lookups(cls)[i], TRUE)])

\* ---- specification: calculate_coordinates on one feature ----

\* the columns that the runs draw the schema of a class from
DiagramPool(cls) ==
    CASE cls = "Pearce1996_NbY_ZrTi" -> << <<"Z", "r", "_", "p", "p", "m">>, <<"T", "i", "_", "p", "p", "m">>, <<"T", "i", "O", "2", "_", "p", "c", "t">>, <<"N", "b", "_", "p", "p", "m">>, <<"Y", "_", "p", "p", "m">> >>
      [] cls = "Meschede1986_Ternary" -> << <<"Z", "r", "_", "p", "p", "m">>, <<"N", "b", "_", "p", "p", "m">>, <<"Y", "_", "p", "p", "m">> >>
      [] cls = "Pearce1984_YNb" -> << <<"N", "b", "_", "p", "p", "m">>, <<"Y", "_", "p", "p", "m">> >>
      [] cls = "Pearce1984_YNbRb" -> << <<"Y", "_", "p", "p", "m">>, <<"N", "b", "_", "p", "p", "m">>, <<"R", "b", "_", "p", "p", "m">> >>
      [] cls = "PearceCann1973_ZrTi" -> << <<"Z", "r", "_", "p", "p", "m">>, <<"T", "i", "O", "2", "_", "p", "c", "t">> >>
      [] cls = "Wilson1989_TAS" -> << <<"N", "a", "2", "O", "_", "p", "c", "t">>, <<"K", "2", "O", "_", "p", "c", "t">>, <<"S", "i", "O", "2", "_", "p", "c", "t">> >>
      [] cls = "Cox1979_TAS" -> << <<"N", "a", "2", "O", "_", "p", "c", "t">>, <<"K", "2", "O", "_", "p", "c", "t">>, <<"S", "i", "O", "2", "_", "p", "c", "t">> >>

\* the content a column holds when it is a positive number
DiagramContent(name) ==
    CASE name = <<"Z", "r", "_", "p", "p", "m">> -> R(8)
      [] name = <<"T", "i", "_", "p", "p", "m">> -> R(4)
      [] name = <<"T", "i", "O", "2", "_", "p", "c", "t">> -> R(2)
      [] name = <<"N", "b", "_", "p", "p", "m">> -> R(10)
      [] name = <<"Y", "_", "p", "p", "m">> -> R(5)
      [] name = <<"R", "b", "_", "p", "p", "m">> -> R(7)
      [] name = <<"N", "a", "2", "O", "_", "p", "c", "t">> -> R(3)
      [] name = <<"K", "2", "O", "_", "p", "c", "t">> -> R(4)
      [] name = <<"S", "i", "O", "2", "_", "p", "c", "t">> -> R(50)

DiagramCellsOf(name) ==
    { NullCell, StrCell(<<"a", "b", "c">>), NumCell(R(-1)), NumCell(R(0)), NumCell(DiagramContent(name)) }

DiagramRows(schema) ==
    { row \in [DOMAIN schema -> UNION { DiagramCellsOf(schema[i]) : i \in DOMAIN schema }] :
        \A i \in DOMAIN schema : row[i] \in DiagramCellsOf(schema[i]) }

InitDiagram ==
    /\ PanelConstructed
    /\ has_layer = TRUE
    /\ tab = 1
    /\ id_field = <<>>
    /\ element = <<>>
    /\ convert_to_ppm = TRUE
    /\ arg_normalize = FALSE
    /\ norm_id = 0
    /\ NoCallYet
    /\ \E cls \in { DISCRIMINATION_DIAGRAMS[i] : i \in DOMAIN DISCRIMINATION_DIAGRAMS } :
         /\ diagram = cls
         /\ fields \in SubSchemas(DiagramPool(cls))
    /\ feats \in { <<row>> : row \in DiagramRows(fields) }

CalculateCoordinates ==
    /\ op = "init"
    /\ op' = "calculate_coordinates"
    /\ \E r \in { calculate_coordinates(diagram, feats[1], fields) } :
         /\ ret_coords' = r.val
         /\ exc' = r.exc
    /\ UNCHANGED <<layerVars, widgetVars, element, convert_to_ppm, arg_normalize, norm_id,
                   abc, ret_field, ret_val>>

NextDiagram == CalculateCoordinates

SpecDiagram == InitDiagram /\ [][NextDiagram]_vars

\* ---------------------------------------------------------------------------
\* The dock widget: element selection and the custom XY plot
\* ---------------------------------------------------------------------------

CUSTOM_XY_ELEMENTS ==
    << <<"1", " ", "(", "n", "o", "n", "e", ")">>, <<"C", "o">>, <<"C", "r">>, <<"G", "d">>, <<"K", "2", "O">>, <<"L", "a">>, <<"L", "u">>, <<"M", "g", "#">>, <<"M", "g", "O">>, <<"N", "a", "2", "O">>,
       <<"N", "b">>, <<"S", "i", "O", "2">>, <<"S", "m">>, <<"S", "r">>, <<"T", "h">>, <<"T", "i">>, <<"T", "i", "O", "2">>, <<"V">>, <<"Y">>, <<"Y", "b">>, <<"Z", "r">> >>

\* the characters of the names in use, in code-point order
CodePoints ==
    <<" ", "#", "%", "(", ")">> \o Digits \o UpperCase \o <<"_">> \o LowerCase

ord(c) == IndexOf(CodePoints, c)

\* a < b on str: by code point, a proper prefix before its extensions
RECURSIVE str_less(_, _)
str_less(a, b) ==
    IF b = <<>> THEN FALSE
    ELSE IF a = <<>> THEN TRUE
    ELSE IF a[1] = b[1] THEN str_less(Tail(a), Tail(b))
    ELSE ord(a[1]) < ord(b[1])

RECURSIVE sorted(_)
sorted(S) ==
    IF S = {} THEN <<>>
    ELSE LET m == CHOOSE x \in S : \A y \in S \ {x} : str_less(x, y)
         IN <<m>> \o sorted(S \ {m})

\* a required-element check that forgets the denominators
elements_needed_numerators(xn, xd, yn, yd) ==
    UNION { IF e = <<"M", "g", "#">> THEN {<<"M", "g", "O">>, <<"F", "e", "O">>} ELSE {e} : e \in {xn, yn} }

\* the set built by the loop over [x_num, x_denom, y_num, y_denom]
elements_needed(xn, xd, yn, yd) ==
    UNION { IF e = <<"1", " ", "(", "n", "o", "n", "e", ")">> THEN {}
            ELSE IF e = <<"M", "g", "#">> THEN {<<"M", "g", "O">>, <<"F", "e", "O">>}
            ELSE {e} : e \in {xn, xd, yn, yd} }

\* the symbols of sorted(elements_needed) that find_element_field does not resolve
missing_of(field_names, needed) ==
    SelectSeq(sorted(needed), LAMBDA e : find_element_field(field_names, e) = None)

\* a call that asks for normalization whatever the symbol
operand_value_any_symbol(feature, field_names, e, norm_values) ==
    get_custom_element_value(feature, field_names, e, norm_values # NoTable, norm_values)

\* one of the four get_custom_element_value calls of the sample loop
operand_value(feature, field_names, e, norm_values) ==
    get_custom_element_value(feature, field_names, e,
                             norm_values # NoTable /\ InList(e, REE_ELEMENTS), norm_values)

\* a missing denominator taken as 1
axis_value_denominator_optional(num_val, denom_val) ==
    IF num_val # NoneVal /\ RPositive(num_val)
    THEN (IF denom_val # NoneVal /\ RPositive(denom_val)
          THEN RDiv(num_val, denom_val)
          ELSE num_val)
    ELSE NoneVal

\* x_val, y_val: the ratio when both operands are present and positive, else None
axis_value(num_val, denom_val) ==
    IF /\ num_val # NoneVal
       /\ denom_val # NoneVal
       /\ RPositive(num_val)
       /\ RPositive(denom_val)
    THEN RDiv(num_val, denom_val)
    ELSE NoneVal

\* a count of the samples that have a coordinate on either axis
valid_count_either_axis(xs, ys) ==
    Cardinality({ k \in DOMAIN xs : xs[k] # NoneVal \/ ys[k] # NoneVal })

\* valid_count after the sample loop: samples with both coordinates
valid_count_of(xs, ys) ==
    Cardinality({ k \in DOMAIN xs : xs[k] # NoneVal /\ ys[k] # NoneVal })

\* ---- sample labels ----

\* the digits after the point of num / den < 1, at most `left` of them
RECURSIVE fraction_digits(_, _, _)
fraction_digits(num, den, left) ==
    IF num = 0 \/ left = 0 THEN <<>>
    ELSE <<Digits[((10 * num) \div den) + 1]>> \o fraction_digits((10 * num) % den, den, left - 1)

\* str(x) of a float x that a short decimal literal denotes: 8.0, 2.37, -1.0
float_str(r) ==
    ((IF r[1] < 0 THEN <<"-">> ELSE <<>>) \o str_int(Abs(r[1]) \div r[2])) \o
    (<<".">> \o (IF Abs(r[1]) % r[2] = 0 THEN <<"0">>
                 ELSE fraction_digits(Abs(r[1]) % r[2], r[2], 17)))

\* str(value) of an attribute value; NULL of qgis.core prints as NULL
str(cell) ==
    CASE cell.t = "null" -> <<"N", "U", "L", "L">>
      [] cell.t = "num"  -> float_str(cell.v)
      [] cell.t = "str"  -> cell.s

preferred_names ==
    << <<"s", "a", "m", "p", "l", "e", "_", "i", "d">>, <<"s", "a", "m", "p", "l", "e", "i", "d">>, <<"s", "a", "m", "p", "l", "e">>, <<"n", "a", "m", "e">>, <<"i", "d">>, <<"s", "a", "m", "p", "l", "e", "_", "n", "a", "m", "e">>,
       <<"s", "a", "m", "p", "l", "e", "n", "a", "m", "e">>, <<"l", "a", "b", "e", "l">>, <<"s", "t", "a", "t", "i", "o", "n">>, <<"s", "i", "t", "e">>, <<"s", "a", "m", "p", "l", "e", "_", "n", "o">>, <<"s", "a", "m", "p", "_", "i", "d">>,
       <<"h", "o", "l", "e", "_", "i", "d">>, <<"h", "o", "l", "e", "i", "d">>, <<"d", "r", "i", "l", "l", "h", "o", "l", "e">>, <<"c", "o", "r", "e", "_", "i", "d">>, <<"s", "p", "e", "c", "_", "i", "d">>, <<"s", "p", "e", "c", "i", "m", "e", "n">> >>

\* on_layer_changed: the index of the first field named as the first preferred
\* name that any field has, 0 when no field has a preferred name
RECURSIVE best_index(_, _)
best_index(field_names, prefs) ==
    IF prefs = <<>> THEN 0
    ELSE IF \E i \in DOMAIN field_names : lower(field_names[i]) = lower(prefs[1])
    THEN (CHOOSE i \in DOMAIN field_names :
              /\ lower(field_names[i]) = lower(prefs[1])
              /\ \A j \in 1..(i - 1) : lower(field_names[j]) # lower(prefs[1])) - 1
    ELSE best_index(field_names, Tail(prefs))

\* id_field_combo.currentText() after on_layer_changed
on_layer_changed(field_names) ==
    IF field_names = <<>> THEN <<>>
    ELSE field_names[best_index(field_names, preferred_names) + 1]

\* update_feature_list: the label of a feature in the feature list
list_label(idf, field_names, feature, fid) ==
    IF /\ idf # <<>>
       /\ InList(idf, field_names)
       /\ Cell(feature, field_names, idf).t # "null"
       /\ strip(str(Cell(feature, field_names, idf))) \notin { <<>>, <<"N", "U", "L", "L">>, <<"N", "o", "n", "e">> }
    THEN str(Cell(feature, field_names, idf))
    ELSE <<"F", "e", "a", "t", "u", "r", "e", " ">> \o str_int(fid)

\* generate_plot: sample_names of the selected features, fids[k] the id of
\* features[k]
sample_names_of(idf, field_names, features, fids) ==
    [k \in DOMAIN features |->
        IF idf # <<>> THEN str(Cell(features[k], field_names, idf))
        ELSE <<"S", "a", "m", "p", "l", "e", " ">> \o str_int(fids[k])]

\* what a handler leaves behind: the message box shown, the listed symbols, the
\* coordinate lists, the count of valid samples, an escaping exception, and
\* whether a figure was created and stored
Outcome(msg, missing, xs, ys, n, e, fig) ==
    [message |-> msg, missing_elements |-> missing, x_data |-> xs, y_data |-> ys,
     valid_count |-> n, exc |-> e, fig |-> fig]

Warning(msg) == Outcome(msg, <<>>, <<>>, <<>>, 0, "", FALSE)

\* the end of generate_custom_xy_plot: the warning at valid_count 0, else the
\* figure, stored in self.current_fig
plot_points(xs, ys, n) ==
    IF n = 0
    THEN Outcome("No valid data points to plot.", <<>>, xs, ys, n, "", FALSE)
    ELSE Outcome("", <<>>, xs, ys, n, "", TRUE)

\* x_data and y_data with their count of valid samples
counted_points(xs, ys) == plot_points(xs, ys, valid_count_of(xs, ys))

\* the sample loop over vals[k][e], the value of operand e for sample k
sample_loop(vals, xn, xd, yn, yd) ==
    IF \E k \in DOMAIN vals : \E e \in {xn, xd, yn, yd} : vals[k][e].exc # ""
    THEN Outcome("", <<>>, <<>>, <<>>, 0,
                 CHOOSE x \in { vals[k][e].exc : k \in DOMAIN vals, e \in {xn, xd, yn, yd} } :
                     x # "",
                 FALSE)
    ELSE counted_points(
             [k \in DOMAIN vals |-> axis_value(vals[k][xn].val, vals[k][xd].val)],
             [k \in DOMAIN vals |-> axis_value(vals[k][yn].val, vals[k][yd].val)])

\* the pre-check and what follows it
checked_plot(missing, field_names, features, xn, xd, yn, yd, norm_values) ==
    IF missing # <<>>
    THEN Outcome("Missing elements", missing, <<>>, <<>>, 0, "", FALSE)
    ELSE sample_loop([k \in DOMAIN features |->
                         [e \in {xn, xd, yn, yd} |->
                             operand_value(features[k], field_names, e, norm_values)]],
                     xn, xd, yn, yd)

generate_custom_xy_plot(field_names, features, xn, xd, yn, yd, norm_values) ==
    checked_plot(missing_of(field_names, elements_needed(xn, xd, yn, yd)),
                 field_names, features, xn, xd, yn, yd, norm_values)

\* ---- the three generators ----

REE_ORDER ==
    << <<"L", "a">>, <<"C", "e">>, <<"P", "r">>, <<"N", "d">>, <<"S", "m">>, <<"E", "u">>, <<"G", "d">>, <<"T", "b">>, <<"D", "y">>, <<"H", "o">>, <<"E", "r">>, <<"T", "m">>,
       <<"Y", "b">>, <<"L", "u">> >>

EXTENDED_SPIDER_ORDER ==
    << <<"B", "a">>, <<"R", "b">>, <<"T", "h">>, <<"K">>, <<"N", "b">>, <<"T", "a">>, <<"L", "a">>, <<"C", "e">>, <<"S", "r">>, <<"N", "d">>,
       <<"P">>, <<"S", "m">>, <<"Z", "r">>, <<"H", "f">>, <<"T", "i">>, <<"T", "b">>, <<"Y">>, <<"T", "m">>, <<"Y", "b">> >>

EXTENDED_ORDER_ALT ==
    << <<"C", "s">>, <<"R", "b">>, <<"B", "a">>, <<"T", "h">>, <<"U">>, <<"N", "b">>, <<"T", "a">>, <<"K">>, <<"L", "a">>, <<"C", "e">>, <<"P", "b">>,
       <<"P", "r">>, <<"S", "r">>, <<"N", "d">>, <<"S", "m">>, <<"Z", "r">>, <<"H", "f">>, <<"E", "u">>, <<"T", "i">>, <<"G", "d">>, <<"T", "b">>,
       <<"D", "y">>, <<"Y">>, <<"H", "o">>, <<"E", "r">>, <<"T", "m">>, <<"Y", "b">>, <<"L", "u">> >>

get_element_order(index) ==
    IF index = 1 THEN EXTENDED_SPIDER_ORDER
    ELSE IF index = 0 THEN REE_ORDER
    ELSE EXTENDED_ORDER_ALT

get_normalization_values(index) ==
    IF index = 0 THEN chondrite_values ELSE primitive_mantle_values

\* the values create_categorical_color_map has not been called for
NoStyle ==
    [category_colors |-> <<>>, sample_colors |-> <<>>, unique_categories |-> <<>>,
     category_markers |-> <<>>, sample_markers |-> <<>>]

\* what a generator leaves behind besides its outcome: the labels, its
\* coordinate list, the colour map and the calls that drew the samples
Series(out, names, d, pd, style, calls) ==
    (out @@ [sample_names |-> names, data |-> d, plot_data |-> pd, drawn |-> calls]) @@ style

NoSeries(out, names) == Series(out, names, <<>>, <<>>, NoStyle, <<>>)

Failure(e) == Outcome("", <<>>, <<>>, <<>>, 0, e, FALSE)

\* the call of ax.scatter or ax.plot for sample i (from 0) at a position
DrawCall(i, at, style) ==
    [i |-> i, at |-> at, color |-> style.sample_colors[i + 1],
     marker |-> style.sample_markers[i + 1]]

IsDrawn(call) == call.at # <<>>

\* calls that take colour and marker at the position among the drawn samples
draw_calls_compacted(positions, style) ==
    [n \in DOMAIN SelectSeq(positions, LAMBDA at : at # <<>>) |->
        DrawCall(n - 1, SelectSeq(positions, LAMBDA at : at # <<>>)[n], style)]

\* the sample loop of a plot: one call for each position other than <<>>,
\* with sample_colors[i] and sample_markers[i]
draw_calls(positions, style) ==
    SelectSeq([k \in DOMAIN positions |-> DrawCall(k - 1, positions[k], style)], IsDrawn)

\* the conversion of generate_spider_diagram
\* a conversion that knows the percent and weight columns only, not the bare
\* oxide names
spider_converted_percent_only(e, raw_value, field_upper) ==
    IF e = <<"K">> /\ Contains(field_upper, <<"K", "2", "O">>) /\ HasPctOrWt(field_upper)
    THEN RMul(raw_value, R(8301))
    ELSE IF e = <<"P">> /\ Contains(field_upper, <<"P", "2", "O", "5">>) /\ HasPctOrWt(field_upper)
    THEN RMul(raw_value, R(4364))
    ELSE IF e = <<"T", "i">> /\ Contains(field_upper, <<"T", "I", "O", "2">>) /\ HasPctOrWt(field_upper)
    THEN RMul(raw_value, R(5995))
    ELSE raw_value

spider_converted(e, raw_value, field_upper) ==
    IF /\ e = <<"K">>
       /\ Contains(field_upper, <<"K", "2", "O">>)
       /\ (HasPctOrWt(field_upper) \/ field_upper = <<"K", "2", "O">>)
    THEN RMul(raw_value, R(8301))
    ELSE IF /\ e = <<"P">>
            /\ Contains(field_upper, <<"P", "2", "O", "5">>)
            /\ (HasPctOrWt(field_upper) \/ field_upper = <<"P", "2", "O", "5">>)
    THEN RMul(raw_value, R(4364))
    ELSE IF /\ e = <<"T", "i">>
            /\ Contains(field_upper, <<"T", "I", "O", "2">>)
            /\ (HasPctOrWt(field_upper) \/ field_upper = <<"T", "I", "O", "2">>)
    THEN RMul(raw_value, R(5995))
    ELSE raw_value

spider_normalized(e, raw_value, norm_values) ==
    IF RPositive(raw_value) /\ InTable(norm_values, e) /\ RPositive(TableGet(norm_values, e))
    THEN RDiv(raw_value, TableGet(norm_values, e))
    ELSE NaN

\* the try block on the parsed cell
spider_parsed(e, f, field_upper, norm_values) ==
    IF f.exc \in caught_errors THEN Return(NaN)
    ELSE IF f.exc # "" THEN Raise(f.exc)
    ELSE Return(spider_normalized(e, spider_converted(e, f.val, field_upper), norm_values))

\* the value appended to normalized_values for one element of one feature,
\* field_name the field that find_element_field returns for the element
spider_value_in(feature, field_names, e, norm_values, field_name) ==
    IF ~Truthy(field_name) THEN Return(NaN)
    ELSE IF Cell(feature, field_names, field_name).t = "null" THEN Return(NaN)
    ELSE spider_parsed(e, float(Cell(feature, field_names, field_name)), upper(field_name),
                       norm_values)

\* the figure of the spider diagram: one line for every sample
spider_figure(names, pd, style) ==
    Series(Outcome("", <<>>, <<>>, <<>>, 0, "", TRUE), names, <<>>, pd, style,
           draw_calls(pd, style))

\* plot_data from the values vals[k][j] of feature k and element j
spider_rows(names, vals) ==
    IF \E k \in DOMAIN vals : \E j \in DOMAIN vals[k] : vals[k][j].exc # ""
    THEN NoSeries(Failure(CHOOSE x \in UNION { { vals[k][j].exc : j \in DOMAIN vals[k] } :
                                                  k \in DOMAIN vals } : x # ""), names)
    ELSE spider_figure(names, [k \in DOMAIN vals |-> [j \in DOMAIN vals[k] |-> vals[k][j].val]],
                       create_categorical_color_map(names))

\* the two loops, field_of[j] the field of element_order[j] in the layer
spider_values(field_names, features, element_order, norm_values, field_of) ==
    [k \in DOMAIN features |->
        [j \in DOMAIN element_order |->
            spider_value_in(features[k], field_names, element_order[j], norm_values,
                            field_of[j])]]

generate_spider_diagram(field_names, features, names, element_order, norm_values) ==
    spider_rows(names,
                spider_values(field_names, features, element_order, norm_values,
                              [j \in DOMAIN element_order |->
                                  find_element_field(field_names, element_order[j])]))

\* a count of every sample of the diagram
discrimination_sample_count(d) == Len(d)

\* valid_count of generate_discrimination_diagram
discrimination_valid_count(d) == Cardinality({ k \in DOMAIN d : d[k][1] # NoneVal })

\* where the plot of a class draws coords: nowhere (<<>>) with a null
\* component, the ternary classes at the projection of the three components
plot_position(cls, coords) ==
    IF \E c \in DOMAIN coords : coords[c] = NoneVal THEN <<>>
    ELSE IF cls = "Meschede1986_Ternary"
    THEN ternary_to_cartesian(coords[1], coords[2], coords[3])
    ELSE coords

\* the figure of a discrimination diagram
discrimination_figure(cls, names, d, style) ==
    Series(Outcome("", <<>>, <<>>, <<>>, discrimination_valid_count(d), "", TRUE),
           names, d, <<>>, style,
           draw_calls([k \in DOMAIN d |-> plot_position(cls, d[k])], style))

\* data from the results of calculate_coordinates
discrimination_rows(cls, names, results) ==
    IF \E k \in DOMAIN results : results[k].exc # ""
    THEN NoSeries(Failure(CHOOSE x \in { results[k].exc : k \in DOMAIN results } : x # ""), names)
    ELSE discrimination_figure(cls, names, [k \in DOMAIN results |-> results[k].val],
                               create_categorical_color_map(names))

generate_discrimination_diagram(field_names, features, names, cls) ==
    discrimination_rows(cls, names,
                        [k \in DOMAIN features |->
                            calculate_coordinates(cls, features[k], field_names)])

\* the figure of the custom XY plot
xy_figure(out, names, style) ==
    Series(out, names, <<>>, <<>>, style,
           draw_calls([k \in DOMAIN out.x_data |->
                          IF out.x_data[k] # NoneVal /\ out.y_data[k] # NoneVal
                          THEN <<out.x_data[k], out.y_data[k]>> ELSE <<>>], style))

\* generate_custom_xy_plot with the colour map and the sample loop of its plot
xy_series(out, names) ==
    IF out.fig THEN xy_figure(out, names, create_categorical_color_map(names))
    ELSE NoSeries(out, names)

\* the tab in front decides the generator
generate_tab(field_names, features, names, ui) ==
    IF ui.tab = 0
    THEN generate_spider_diagram(field_names, features, names,
                                 get_element_order(ui.order_index),
                                 get_normalization_values(ui.norm_index))
    ELSE IF ui.tab = 1
    THEN generate_discrimination_diagram(field_names, features, names, ui.diagram)
    ELSE xy_series(generate_custom_xy_plot(field_names, features, ui.x_num, ui.x_denom,
                                           ui.y_num, ui.y_denom, NormTable(ui.ree_norm_id)),
                   names)

\* generate_plot on the widgets' values ui, fids[k] the id of features[k]
generate_plot(layer_ok, field_names, features, fids, ui) ==
    IF ~layer_ok THEN NoSeries(Warning("Please select a valid layer."), <<>>)
    ELSE IF features = <<>> THEN NoSeries(Warning("Please select at least one sample."), <<>>)
    ELSE generate_tab(field_names, features,
                      sample_names_of(ui.id_field, field_names, features, fids), ui)

\* the values of the widgets that generate_plot reads
Widgets ==
    [tab |-> tab, diagram |-> diagram, id_field |-> id_field, order_index |-> order_index,
     norm_index |-> norm_index, x_num |-> x_num, x_denom |-> x_denom, y_num |-> y_num,
     y_denom |-> y_denom, ree_norm_id |-> ree_norm_id]

\* ---- specification: the widget on a layer, Custom XY tab ----

\* the operands offered by the combo boxes that the runs use
XYNumerators == { <<"C", "o">>, <<"M", "g", "#">> }
XYDenominators == { <<"1", " ", "(", "n", "o", "n", "e", ")">>, <<"C", "o">> }

\* the columns of the layer: MgO, at most one iron column, a trace element
XYPool == << <<"M", "g", "O", "_", "p", "c", "t">>, <<"F", "e", "O", "_", "p", "c", "t">>, <<"F", "e", "2", "O", "3", "_", "p", "c", "t">>, <<"C", "o", "_", "p", "p", "m">> >>

XYSchemas ==
    { s \in SubSchemas(XYPool) : ~(InList(<<"F", "e", "O", "_", "p", "c", "t">>, s) /\ InList(<<"F", "e", "2", "O", "3", "_", "p", "c", "t">>, s)) }

\* the cells of a column: the oxide columns hold NULL or a content, the trace
\* column zero or a content, and the Fe2O3 column one content (the runs vary
\* its presence)
XYCellsOf(name) ==
    IF name = <<"C", "o", "_", "p", "p", "m">> THEN { NumCell(R(0)), NumCell(R(8)) }
    ELSE IF name = <<"F", "e", "2", "O", "3", "_", "p", "c", "t">> THEN { NumCell(R(50)) }
    ELSE { NullCell, NumCell(R(8)) }

XYCells == UNION { XYCellsOf(XYPool[i]) : i \in DOMAIN XYPool }

XYRows(schema) ==
    { row \in [DOMAIN schema -> XYCells] :
        \A i \in DOMAIN schema : row[i] \in XYCellsOf(schema[i]) }

XYTables(schema) ==
    UNION { [1..n -> XYRows(schema)] : n \in 0..MaxSamples }

InitXY ==
    /\ WidgetConstructed
    /\ tab = 2
    /\ has_layer \in BOOLEAN
    /\ IF has_layer
       THEN /\ fields \in XYSchemas
            /\ feats \in XYTables(fields)
       ELSE /\ fields = <<>>
            /\ feats = <<>>
    /\ id_field = on_layer_changed(fields)
    /\ element = <<>>
    /\ convert_to_ppm = TRUE
    /\ arg_normalize = FALSE
    /\ norm_id = 0
    /\ NoCallYet

\* a message box is modal and the lists are locals of the handler: they are
\* gone when the next event is handled
OutcomeGone ==
    /\ message' = ""
    /\ missing_elements' = <<>>
    /\ x_data' = <<>>
    /\ y_data' = <<>>
    /\ valid_count' = 0
    /\ sample_names' = <<>>
    /\ data' = <<>>
    /\ plot_data' = <<>>
    /\ category_colors' = <<>>
    /\ sample_colors' = <<>>
    /\ unique_categories' = <<>>
    /\ category_markers' = <<>>
    /\ sample_markers' = <<>>
    /\ drawn' = <<>>
    /\ exc' = ""
    /\ op' = "idle"

callArgs == <<element, convert_to_ppm, arg_normalize, norm_id, abc, ret_field, ret_val,
              ret_coords>>

\* the user picks an item of x_num_combo other than the current one
ChooseXNum(pool) ==
    /\ \E e \in pool \ {x_num} : x_num' = e
    /\ InList(x_num', SubSeq(CUSTOM_XY_ELEMENTS, 2, Len(CUSTOM_XY_ELEMENTS)))
    /\ OutcomeGone
    /\ UNCHANGED <<layerVars, callArgs, has_layer, selected, x_denom, y_num, y_denom,
                   ree_norm_id, pageVars, figVars>>

SetXNum == ChooseXNum(XYNumerators)

\* the user picks an item of x_denom_combo other than the current one
ChooseXDenom(pool) ==
    /\ \E e \in pool \ {x_denom} : x_denom' = e
    /\ InList(x_denom', CUSTOM_XY_ELEMENTS)
    /\ OutcomeGone
    /\ UNCHANGED <<layerVars, callArgs, has_layer, selected, x_num, y_num, y_denom,
                   ree_norm_id, pageVars, figVars>>

SetXDenom == ChooseXDenom(XYDenominators)

\* the user picks an item of y_num_combo other than the current one
ChooseYNum(pool) ==
    /\ \E e \in pool \ {y_num} : y_num' = e
    /\ InList(y_num', SubSeq(CUSTOM_XY_ELEMENTS, 2, Len(CUSTOM_XY_ELEMENTS)))
    /\ OutcomeGone
    /\ UNCHANGED <<layerVars, callArgs, has_layer, selected, x_num, x_denom, y_denom,
                   ree_norm_id, pageVars, figVars>>

SetYNum == ChooseYNum(XYNumerators)

\* the user picks an item of y_denom_combo other than the current one
ChooseYDenom(pool) ==
    /\ \E e \in pool \ {y_denom} : y_denom' = e
    /\ InList(y_denom', CUSTOM_XY_ELEMENTS)
    /\ OutcomeGone
    /\ UNCHANGED <<layerVars, callArgs, has_layer, selected, x_num, x_denom, y_num,
                   ree_norm_id, pageVars, figVars>>

SetYDenom == ChooseYDenom(XYDenominators)

\* select_all_features: every item of the feature list
SelectAllFeatures ==
    /\ selected' = [k \in DOMAIN feats |-> k]
    /\ OutcomeGone
    /\ UNCHANGED <<layerVars, callArgs, has_layer, comboVars, figVars>>

\* deselect_all_features
DeselectAllFeatures ==
    /\ selected' = <<>>
    /\ OutcomeGone
    /\ UNCHANGED <<layerVars, callArgs, has_layer, comboVars, figVars>>

\* the Generate Plot button
GeneratePlot ==
    /\ \E out \in { generate_plot(has_layer, fields,
                                   [k \in DOMAIN selected |-> feats[selected[k]]],
                                   selected, Widgets) } :
          /\ out.fig => n_figs < MaxFigs
          /\ message' = out.message
          /\ missing_elements' = out.missing_elements
          /\ x_data' = out.x_data
          /\ y_data' = out.y_data
          /\ valid_count' = out.valid_count
          /\ exc' = out.exc
          /\ sample_names' = out.sample_names
          /\ data' = out.data
          /\ plot_data' = out.plot_data
          /\ category_colors' = out.category_colors
          /\ sample_colors' = out.sample_colors
          /\ unique_categories' = out.unique_categories
          /\ category_markers' = out.category_markers
          /\ sample_markers' = out.sample_markers
          /\ drawn' = out.drawn
          /\ IF out.fig
             THEN /\ n_figs' = n_figs + 1
                  /\ current_fig' = n_figs + 1
                  /\ saved_fig' = saved_fig
             ELSE UNCHANGED figVars
    /\ op' = "generate_plot"
    /\ UNCHANGED <<layerVars, callArgs, has_layer, selected, comboVars>>

NextXY ==
    \/ SetXNum
    \/ SetXDenom
    \/ SetYNum
    \/ SetYDenom
    \/ SelectAllFeatures
    \/ DeselectAllFeatures
    \/ GeneratePlot

SpecXY == InitXY /\ [][NextXY]_vars

\* ---- specification: the widget on a layer, the three tabs ----

\* features of the layer shown in the dock widget of these runs
MaxSelected == 3

\* the columns of the layer: a label column and the elements of the Meschede
\* and Nb vs Y diagrams, of the REE spider diagram and of the first custom XY
\* plot
SeriesSchema ==
    << <<"S", "a", "m", "p", "l", "e">>, <<"Z", "r", "_", "p", "p", "m">>, <<"N", "b", "_", "p", "p", "m">>, <<"Y", "_", "p", "p", "m">>, <<"L", "a", "_", "p", "p", "m">>, <<"C", "o", "_", "p", "p", "m">> >>

\* the layer with the label column, the layer without it, and a layer
\* without any field
SeriesSchemas == { SeriesSchema, Tail(SeriesSchema), <<>> }

\* the samples of the runs, as label and whether analysed: two samples
\* labelled A, one with a NULL label and one with an empty label
SeriesSamples ==
    { <<StrCell(<<"A">>), TRUE>>, <<StrCell(<<"A">>), FALSE>>, <<NullCell, TRUE>>,
      <<StrCell(<<>>), FALSE>> }

\* the cell of a column in a row: an analysed sample has Zr, La and Co, another
\* one has NULL for Zr and La and 0 for Co
SeriesCell(name, label, analysed) ==
    CASE name = <<"S", "a", "m", "p", "l", "e">> -> label
      [] name = <<"Z", "r", "_", "p", "p", "m">> -> IF analysed THEN NumCell(R(8)) ELSE NullCell
      [] name = <<"N", "b", "_", "p", "p", "m">> -> NumCell(R(10))
      [] name = <<"Y", "_", "p", "p", "m">> -> NumCell(R(5))
      [] name = <<"L", "a", "_", "p", "p", "m">> -> IF analysed THEN NumCell(Dec(237, 100)) ELSE NullCell
      [] name = <<"C", "o", "_", "p", "p", "m">> -> IF analysed THEN NumCell(R(8)) ELSE NumCell(R(0))

SeriesRows(schema) ==
    { [i \in DOMAIN schema |-> SeriesCell(schema[i], s[1], s[2])] : s \in SeriesSamples }

SeriesDiagrams == { "Meschede1986_Ternary", "Pearce1984_YNb" }

InitSeries ==
    /\ PanelConstructed
    /\ has_layer = TRUE
    /\ tab \in {0, 1, 2}
    /\ diagram \in (IF tab = 1 THEN SeriesDiagrams ELSE {"Wilson1989_TAS"})
    /\ fields \in SeriesSchemas
    /\ feats \in UNION { [1..n -> SeriesRows(fields)] : n \in 0..MaxSelected }
    /\ id_field = on_layer_changed(fields)
    /\ element = <<>>
    /\ convert_to_ppm = TRUE
    /\ arg_normalize = FALSE
    /\ norm_id = 0
    /\ NoCallYet

\* the user adds an item of the feature list to the selection; selectedItems()
\* lists the items in the order Qt keeps them in, here the order of the clicks
SelectFeature ==
    /\ \E k \in DOMAIN feats :
         /\ ~InList(k, selected)
         /\ selected' = Append(selected, k)
    /\ OutcomeGone
    /\ UNCHANGED <<layerVars, callArgs, has_layer, comboVars, figVars>>

NextSeries ==
    \/ SelectFeature
    \/ DeselectAllFeatures
    \/ GeneratePlot

SpecSeries == InitSeries /\ [][NextSeries]_vars

\* ---------------------------------------------------------------------------
\* The plugin object: run(), the close of the dock widget, unload()
\* ---------------------------------------------------------------------------

\* dock widgets of other plugins in the right dock area
MaxOtherDocks == 2

\* dock widgets created in one session of QGIS
MaxDocks == 3

InitPlugin ==
    /\ WidgetIdle
    /\ fields = <<>>
    /\ feats = <<>>
    /\ element = <<>>
    /\ convert_to_ppm = TRUE
    /\ arg_normalize = FALSE
    /\ norm_id = 0
    /\ NoOutcome
    /\ TablesLoaded
    /\ abc = <<>>
    /\ sample_names = <<>>
    /\ PluginIs(plugin_init)
    /\ other_docks \in 0..MaxOtherDocks

\* the plugin object becomes p after handler h
PluginStep(h, p) ==
    /\ op' = h
    /\ exc' = p.exc
    /\ pluginIsActive' = p.pluginIsActive
    /\ dock_widget' = p.dock_widget
    /\ toolbar' = p.toolbar
    /\ connected' = p.connected
    /\ dock_visible' = p.dock_visible
    /\ dock_added' = p.dock_added
    /\ dock_tabbed' = p.dock_tabbed
    /\ n_docks' = p.n_docks
    /\ UNCHANGED <<fields, feats, tableVars, other_docks, callArgs, widgetVars>>

\* the toolbar button or the menu entry of the plugin
Run ==
    /\ \E p \in { run(Plugin, other_docks) } :
         /\ p.n_docks <= MaxDocks
         /\ PluginStep("run", p)

\* the user closes the dock widget
CloseDock ==
    /\ dock_widget # 0
    /\ dock_visible
    /\ PluginStep("closeEvent", closeEvent(Plugin))

\* QGIS unloads the plugin
Unload == PluginStep("unload", unload(Plugin))

\* QGIS loads the plugin again after it was unloaded: a new plugin object
Reload ==
    /\ ~toolbar
    /\ PluginStep("init", [plugin_init EXCEPT !.n_docks = n_docks])

\* another plugin opens or closes a dock widget in the right dock area
OtherDock ==
    /\ \E n \in (0..MaxOtherDocks) \ {other_docks} : other_docks' = n
    /\ UNCHANGED <<fields, feats, tableVars, pluginIsActive, dock_widget, toolbar, connected,
                   dock_visible, dock_added, dock_tabbed, n_docks, callVars, widgetVars>>

NextPlugin ==
    \/ Run
    \/ CloseDock
    \/ Unload
    \/ Reload
    \/ OtherDock

SpecPlugin == InitPlugin /\ [][NextPlugin]_vars

\* ---------------------------------------------------------------------------
\* Save Plot after Generate Plot on the three tabs
\* ---------------------------------------------------------------------------

\* features of the layer in the runs with Save Plot
MaxSaveSamples == 2

\* the answers of the file dialog: cancelled, or a file name
SavePaths == { "", "plot.png" }

\* a save_plot that exports the first figure of the session
save_plot_first_figure(fig, file_path) ==
    IF fig = 0 THEN [message |-> "Please generate a plot first.", exported |-> 0]
    ELSE IF file_path # "" THEN [message |-> "Plot saved to:\n" \o file_path, exported |-> 1]
    ELSE [message |-> "", exported |-> 0]

\* save_plot with current_fig = fig (0 for None) and the answer of the file
\* dialog: the message box shown and the figure written to the file, 0 for none
save_plot(fig, file_path) ==
    IF fig = 0 THEN [message |-> "Please generate a plot first.", exported |-> 0]
    ELSE IF file_path # "" THEN [message |-> "Plot saved to:\n" \o file_path, exported |-> fig]
    ELSE [message |-> "", exported |-> 0]

\* a layer with the columns of the ternary diagram, La and Co, and the same
\* layer without Co
SaveSchemas == { Tail(SeriesSchema), SubSeq(SeriesSchema, 2, 5) }

\* an analysed sample and a sample whose cells are all NULL
SaveRows(schema) ==
    { [i \in DOMAIN schema |-> SeriesCell(schema[i], NullCell, TRUE)],
      [i \in DOMAIN schema |-> NullCell] }

InitSave ==
    /\ PanelConstructed
    /\ has_layer \in BOOLEAN
    /\ tab = 0
    /\ diagram = "Meschede1986_Ternary"
    /\ fields \in SaveSchemas
    /\ feats \in UNION { [1..n -> SaveRows(fields)] : n \in 0..MaxSaveSamples }
    /\ id_field = on_layer_changed(fields)
    /\ element = <<>>
    /\ convert_to_ppm = TRUE
    /\ arg_normalize = FALSE
    /\ norm_id = 0
    /\ NoCallYet

\* the user opens another tab
SelectTab ==
    /\ \E t \in {0, 1, 2} \ {tab} : tab' = t
    /\ OutcomeGone
    /\ UNCHANGED <<layerVars, callArgs, has_layer, selected, diagram, id_field, order_index,
                   norm_index, x_num, x_denom, y_num, y_denom, ree_norm_id, figVars>>

\* the Save Plot button; the lists of the last Generate Plot are not touched
SavePlot ==
    /\ \E file_path \in SavePaths :
         \E out \in { save_plot(current_fig, file_path) } :
            /\ message' = out.message
            /\ saved_fig' = IF out.exported # 0 THEN out.exported ELSE saved_fig
    /\ op' = "save_plot"
    /\ exc' = ""
    /\ UNCHANGED <<layerVars, callArgs, has_layer, selected, comboVars, current_fig, n_figs,
                   missing_elements, x_data, y_data, valid_count, seriesVars>>

NextSave ==
    \/ SelectFeature
    \/ DeselectAllFeatures
    \/ SelectTab
    \/ GeneratePlot
    \/ SavePlot

SpecSave == InitSave /\ [][NextSave]_vars

\* ---------------------------------------------------------------------------
\* get_custom_element_value applied to the operands that name a column
\* ---------------------------------------------------------------------------

\* operands of the axis combo boxes: an element with an oxide column, the
\* oxide itself, an element and an oxide without conversion
OperandSymbols == { <<"T", "i">>, <<"T", "i", "O", "2">>, <<"Z", "r">>, <<"K", "2", "O">> }

InitOperand ==
    /\ WidgetIdle
    /\ element \in OperandSymbols
    /\ fields \in Schemas(ValuePool(element), MaxFields)
    /\ feats \in { <<row>> : row \in Rows(fields, ValueCells) }
    /\ convert_to_ppm = TRUE
    /\ arg_normalize = FALSE
    /\ norm_id = 0
    /\ NoCallYet

NextOperand == GetCustomElementValue

SpecOperand == InitOperand /\ [][NextOperand]_vars

\* ---------------------------------------------------------------------------
\* find_element_field on symbols that share leading letters
\* ---------------------------------------------------------------------------

PrefixSymbols == { <<"N", "a">>, <<"N", "b">>, <<"C">>, <<"C", "o">> }

\* columns named after a symbol: ppm and percent columns, which are exact
\* candidates, and the spelling without separator, found by the prefix scan
PrefixColumns(e) == { e \o <<"_", "p", "p", "m">>, e \o <<"_", "p", "c", "t">>, e \o <<"p", "p", "m">> }

PrefixPool == UNION { PrefixColumns(e) : e \in PrefixSymbols }

InitPrefix ==
    /\ WidgetIdle
    /\ element \in PrefixSymbols
    /\ fields \in Schemas(PrefixPool, MaxFields)
    /\ feats = <<>>
    /\ convert_to_ppm = TRUE
    /\ arg_normalize = FALSE
    /\ norm_id = 0
    /\ NoCallYet

NextPrefix == FindElementField

SpecPrefix == InitPrefix /\ [][NextPrefix]_vars

\* ---------------------------------------------------------------------------
\* Generate Plot on the spider tab, layers with oxide columns
\* ---------------------------------------------------------------------------

\* features of the layer in the runs of the spider diagram
MaxSpiderSamples == 1

\* potassium as oxide percent, as bare oxide name and as element; titanium as
\* bare oxide name; phosphorus as oxide weight; a rare earth element
SpiderPool ==
    { <<"K", "2", "O", "_", "p", "c", "t">>, <<"K", "2", "O">>, <<"K", "_", "p", "p", "m">>, <<"T", "i", "O", "2">>, <<"P", "2", "O", "5", "_", "w", "t">>, <<"L", "a", "_", "p", "p", "m">> }

SpiderCells == { NullCell, StrCell(<<"a", "b", "c">>), NumCell(R(0)), NumCell(R(10)) }

InitSpider ==
    /\ PanelConstructed
    /\ has_layer = TRUE
    /\ tab = 0
    /\ diagram = "Wilson1989_TAS"
    /\ fields \in Schemas(SpiderPool, MaxFields)
    /\ feats \in UNION { [1..n -> Rows(fields, SpiderCells)] : n \in 1..MaxSpiderSamples }
    /\ id_field = on_layer_changed(fields)
    /\ element = <<>>
    /\ convert_to_ppm = TRUE
    /\ arg_normalize = FALSE
    /\ norm_id = 0
    /\ NoCallYet

\* the user picks another item of order_combo
SetOrder ==
    /\ \E i \in {0, 1, 2} \ {order_index} : order_index' = i
    /\ OutcomeGone
    /\ UNCHANGED <<layerVars, callArgs, has_layer, selected, x_num, x_denom, y_num, y_denom,
                   ree_norm_id, tab, diagram, id_field, norm_index, figVars>>

\* the user picks the other item of norm_combo
SetNorm ==
    /\ norm_index' = 1 - norm_index
    /\ OutcomeGone
    /\ UNCHANGED <<layerVars, callArgs, has_layer, selected, x_num, x_denom, y_num, y_denom,
                   ree_norm_id, tab, diagram, id_field, order_index, figVars>>

NextSpider ==
    \/ SetOrder
    \/ SetNorm
    \/ SelectAllFeatures
    \/ GeneratePlot

SpecSpider == InitSpider /\ [][NextSpider]_vars

\* ---------------------------------------------------------------------------
\* Generate Plot on the discrimination tab, samples with zero concentrations
\* ---------------------------------------------------------------------------

\* features of the layer in the runs with zero concentrations
MaxZeroSamples == 2

ZeroSchema == << <<"Z", "r", "_", "p", "p", "m">>, <<"N", "b", "_", "p", "p", "m">>, <<"Y", "_", "p", "p", "m">> >>

ZeroCells == { NullCell, NumCell(R(0)), NumCell(R(10)) }

InitZero ==
    /\ PanelConstructed
    /\ has_layer = TRUE
    /\ tab = 1
    /\ diagram \in SeriesDiagrams
    /\ fields = ZeroSchema
    /\ feats \in UNION { [1..n -> Rows(fields, ZeroCells)] : n \in 1..MaxZeroSamples }
    /\ id_field = on_layer_changed(fields)
    /\ element = <<>>
    /\ convert_to_ppm = TRUE
    /\ arg_normalize = FALSE
    /\ norm_id = 0
    /\ NoCallYet

NextZero ==
    \/ SelectFeature
    \/ DeselectAllFeatures
    \/ GeneratePlot

SpecZero == InitZero /\ [][NextZero]_vars

\* ---- claims about the custom XY plot ----

\* a step of the Generate Plot button that enters generate_custom_xy_plot
XYPlotStep ==
    /\ op' = "generate_plot"
    /\ has_layer
    /\ selected # <<>>
    /\ tab = 2

\* the state such a step leaves
XYPlotDone ==
    /\ op = "generate_plot"
    /\ has_layer
    /\ selected # <<>>
    /\ tab = 2

Operands == {x_num, x_denom, y_num, y_denom} \ { <<"1", " ", "(", "n", "o", "n", "e", ")">> }

Resolves(e) == find_element_field(fields, e) # None

IronResolves == Resolves(<<"F", "e", "O">>) \/ Resolves(<<"F", "e", "O", "T">>) \/ Resolves(<<"F", "e", "2", "O", "3">>)

\* the symbols behind an operand that resolve to no field; Mg# stands for MgO
\* and an iron oxide, which the warning names FeO
UnresolvedOf(e) ==
    IF e = <<"M", "g", "#">>
    THEN { s \in { <<"M", "g", "O">> } : ~Resolves(s) } \cup { s \in { <<"F", "e", "O">> } : ~IronResolves }
    ELSE { s \in {e} : ~Resolves(s) }

Unresolved == UNION { UnresolvedOf(e) : e \in Operands }

Listed(lst) == { lst[i] : i \in DOMAIN lst }

\* C8: with Mg# among the operands (the other operands resolving), the
\* missing-elements pre-check passes exactly when MgO resolves and at least one
\* of FeO, FeOT, Fe2O3 resolves, so a schema with MgO and only Fe2O3 passes it.
C8_PrecheckAcceptsAnyIronColumn ==
    ( /\ XYPlotDone
      /\ <<"M", "g", "#">> \in Operands
      /\ \A e \in Operands \ { <<"M", "g", "#">> } : Resolves(e) )
    => ( message # "Missing elements" <=> (Resolves(<<"M", "g", "O">>) /\ IronResolves) )

\* C9: when a symbol behind an operand of either axis resolves to no field, the
\* plot stops at the pre-check: the warning lists every such symbol (and only
\* symbols that do not resolve), no coordinate is computed, no figure is
\* created and the current figure stays as it was.
C9_MissingElementsStopThePlot ==
    [][ (XYPlotStep /\ Unresolved # {})
        => ( /\ message' = "Missing elements"
             /\ Unresolved \subseteq Listed(missing_elements')
             /\ \A s \in Listed(missing_elements') : ~Resolves(s)
             /\ x_data' = <<>>
             /\ y_data' = <<>>
             /\ valid_count' = 0
             /\ UNCHANGED figVars ) ]_vars

\* a figure exists, a denominator is then set to a symbol without a column, and
\* the next Generate Plot names it and keeps the figure
C9_Witness ==
    /\ XYPlotDone
    /\ current_fig = 1
    /\ x_num = <<"M", "g", "#">>
    /\ y_denom = <<"C", "o">>
    /\ message = "Missing elements"
    /\ missing_elements = << <<"C", "o">> >>
    /\ x_data = <<>>

\* C10: past the pre-check, when no selected sample has both an x and a y
\* value, the plot ends with the "No valid data points" warning, creates no
\* figure and leaves the current figure as it was.
C10_NoValidDataStopsThePlot ==
    [][ ( /\ XYPlotStep
          /\ message' # "Missing elements"
          /\ exc' = ""
          /\ Len(x_data') = Len(selected)
          /\ \A k \in DOMAIN x_data' : x_data'[k] = NoneVal \/ y_data'[k] = NoneVal )
        => ( /\ message' = "No valid data points to plot."
             /\ UNCHANGED figVars ) ]_vars

\* a figure exists; then one sample has only an x value and the other only a y
\* value
C10_Witness ==
    /\ XYPlotDone
    /\ current_fig = 1
    /\ message = "No valid data points to plot."
    /\ Len(x_data) = 2
    /\ x_data[1] # NoneVal /\ y_data[1] = NoneVal
    /\ x_data[2] = NoneVal /\ y_data[2] # NoneVal

\* ---- claims about the coordinates of the custom XY plot ----

\* the value get_custom_element_value gives for operand e of the k-th selected sample
OperandOf(k, e) ==
    operand_value(feats[selected[k]], fields, e, NormTable(ree_norm_id)).val

Present(v) == v # NoneVal /\ RPositive(v)

\* coordinate c is the quotient of num by denom when both are present and
\* positive, and null otherwise
QuotientOrNull(c, num, denom) ==
    IF Present(num) /\ Present(denom)
    THEN c # NoneVal /\ RMul(c, denom) = num
    ELSE c = NoneVal

\* C11: past the pre-check, each axis value of each selected sample is non-null
\* exactly when its numerator and its denominator value are both non-null and
\* strictly positive, and is then numerator / denominator; each axis is judged
\* on its own; valid_count is the number of samples with both values non-null.
C11_AxisValuesIndependent ==
    (XYPlotDone /\ message # "Missing elements" /\ exc = "")
    => /\ Len(x_data) = Len(selected)
       /\ Len(y_data) = Len(selected)
       /\ \A k \in DOMAIN selected :
            /\ QuotientOrNull(x_data[k], OperandOf(k, x_num), OperandOf(k, x_denom))
            /\ QuotientOrNull(y_data[k], OperandOf(k, y_num), OperandOf(k, y_denom))
       /\ valid_count =
            Cardinality({ k \in DOMAIN selected : x_data[k] # NoneVal /\ y_data[k] # NoneVal })

\* a plotted run in which the first sample has an x value and, its Co being 0,
\* no y value
C11_Witness ==
    /\ XYPlotDone
    /\ message = ""
    /\ current_fig = 1
    /\ x_num = <<"M", "g", "#">>
    /\ y_denom = <<"C", "o">>
    /\ Len(x_data) = 2
    /\ x_data[1] # NoneVal /\ y_data[1] = NoneVal
    /\ x_data[2] # NoneVal /\ y_data[2] = R(1)
    /\ valid_count = 1

\* ---- specification: the Custom XY tab with REE normalization ----

NormNumerators == { <<"L", "a">>, <<"Z", "r">> }
NormDenominators == { <<"1", " ", "(", "n", "o", "n", "e", ")">>, <<"L", "a">> }

NormPool == << <<"L", "a", "_", "p", "p", "m">>, <<"Z", "r", "_", "p", "p", "m">> >>

\* La 2.37 ppm or NULL; Zr 3.87 ppm
NormCellsOf(name) ==
    IF name = <<"L", "a", "_", "p", "p", "m">> THEN { NullCell, NumCell(Dec(237, 100)) }
    ELSE { NumCell(Dec(387, 100)) }

NormRows(schema) ==
    { row \in [DOMAIN schema -> UNION { NormCellsOf(NormPool[i]) : i \in DOMAIN NormPool }] :
        \A i \in DOMAIN schema : row[i] \in NormCellsOf(schema[i]) }

InitNorm ==
    /\ WidgetConstructed
    /\ tab = 2
    /\ has_layer = TRUE
    /\ fields \in SubSchemas(NormPool)
    /\ feats \in UNION { [1..n -> NormRows(fields)] : n \in 1..MaxSamples }
    /\ id_field = on_layer_changed(fields)
    /\ element = <<>>
    /\ convert_to_ppm = TRUE
    /\ arg_normalize = FALSE
    /\ norm_id = 0
    /\ NoCallYet

SetXNumNorm == ChooseXNum(NormNumerators)
SetXDenomNorm == ChooseXDenom(NormDenominators)
SetYNumNorm == ChooseYNum(NormNumerators)
SetYDenomNorm == ChooseYDenom(NormDenominators)

\* the user checks one of the radio buttons None / Chondrite / Primitive Mantle
SetReeNorm ==
    /\ \E id \in {0, 1, 2} \ {ree_norm_id} : ree_norm_id' = id
    /\ OutcomeGone
    /\ UNCHANGED <<layerVars, callArgs, has_layer, selected, x_num, x_denom, y_num, y_denom,
                   pageVars, figVars>>

NextNorm ==
    \/ SetXNumNorm
    \/ SetXDenomNorm
    \/ SetYNumNorm
    \/ SetYDenomNorm
    \/ SetReeNorm
    \/ SelectAllFeatures
    \/ GeneratePlot

SpecNorm == InitNorm /\ [][NextNorm]_vars

\* ---- claims about normalization in the custom XY plot ----

\* the raw value of operand e for the k-th selected sample
RawOf(k, e) ==
    get_custom_element_value(feats[selected[k]], fields, e, FALSE, NoTable).val

SelectedTable == NormTable(ree_norm_id)

\* the operand is divided: a table is selected, the symbol is an REE and the
\* table holds a positive entry for it
Divided(e) ==
    /\ ree_norm_id # 0
    /\ InList(e, REE_ELEMENTS)
    /\ InTable(SelectedTable, e)
    /\ RPositive(TableGet(SelectedTable, e))

ExpectedOf(k, e) ==
    IF RawOf(k, e) # NoneVal /\ Divided(e)
    THEN RDiv(RawOf(k, e), TableGet(SelectedTable, e))
    ELSE RawOf(k, e)

\* C12: the coordinates of a custom XY plot are built from operand values that
\* are the raw value divided by the selected table's entry exactly when a table
\* is selected, the symbol is one of the REE and the entry is positive; Zr,
\* which both tables hold, enters raw.
C12_NormalizationOnlyForREE ==
    (XYPlotDone /\ message # "Missing elements" /\ exc = "")
    => \A k \in DOMAIN selected :
         /\ QuotientOrNull(x_data[k], ExpectedOf(k, x_num), ExpectedOf(k, x_denom))
         /\ QuotientOrNull(y_data[k], ExpectedOf(k, y_num), ExpectedOf(k, y_denom))

\* La 2.37 over chondrite 0.237 plots at x = 10, Zr 3.87 at y = 3.87
C12_Witness ==
    /\ XYPlotDone
    /\ message = ""
    /\ ree_norm_id = 1
    /\ x_num = <<"L", "a">> /\ x_denom = <<"1", " ", "(", "n", "o", "n", "e", ")">>
    /\ y_num = <<"Z", "r">> /\ y_denom = <<"1", " ", "(", "n", "o", "n", "e", ")">>
    /\ InTable(CHONDRITE_VALUES, <<"Z", "r">>)
    /\ x_data[1] = R(10)
    /\ y_data[1] = Dec(387, 100)

\* ---- claims about calculate_coordinates ----

CoordsComputed == op = "calculate_coordinates"

\* the required elements of each diagram
RequiredBy(cls) ==
    CASE cls = "Pearce1996_NbY_ZrTi" -> { <<"Z", "r">>, <<"T", "i">>, <<"N", "b">>, <<"Y">> }
      [] cls = "Meschede1986_Ternary" -> { <<"Z", "r">>, <<"N", "b">>, <<"Y">> }
      [] cls = "Pearce1984_YNb" -> { <<"N", "b">>, <<"Y">> }
      [] cls = "Pearce1984_YNbRb" -> { <<"Y">>, <<"N", "b">>, <<"R", "b">> }
      [] cls = "PearceCann1973_ZrTi" -> { <<"Z", "r">>, <<"T", "i", "O", "2">> }
      [] cls = "Wilson1989_TAS" -> { <<"N", "a", "2", "O">>, <<"K", "2", "O">>, <<"S", "i", "O", "2">> }
      [] cls = "Cox1979_TAS" -> { <<"N", "a", "2", "O">>, <<"K", "2", "O">>, <<"S", "i", "O", "2">> }

\* the cell of the first feature under the field that symbol e resolves to
CellOf(e) == feats[1][IndexOf(fields, find_element_field(fields, e))]

\* e resolves, its cell is a number, and the number meets the diagram's rule
UsableInput(cls, e) ==
    /\ Resolves(e)
    /\ CellOf(e).t = "num"
    /\ IF cls = "Meschede1986_Ternary" THEN CellOf(e).v[1] >= 0 ELSE CellOf(e).v[1] > 0

AllUsable == \A e \in RequiredBy(diagram) : UsableInput(diagram, e)

\* C13: calculate_coordinates of each of the seven diagrams returns a tuple
\* with no null component exactly when every required element resolves, holds
\* a number and meets the rule (> 0, for the Meschede ternary >= 0); otherwise
\* every component of the tuple is null.
C13_CoordinatesAllOrNothing ==
    CoordsComputed =>
        /\ exc = ""
        /\ Len(ret_coords) = (IF diagram = "Meschede1986_Ternary" THEN 3 ELSE 2)
        /\ IF AllUsable
           THEN \A i \in DOMAIN ret_coords : ret_coords[i] # NoneVal
           ELSE \A i \in DOMAIN ret_coords : ret_coords[i] = NoneVal

\* the ternary accepts Nb = 0: Zr 8, Y 5, Nb 0 gives (2, 5, 0)
C13_Witness ==
    /\ CoordsComputed
    /\ diagram = "Meschede1986_Ternary"
    /\ ret_coords = <<R(2), R(5), R(0)>>
    /\ Resolves(<<"N", "b">>)
    /\ CellOf(<<"N", "b">>) = NumCell(R(0))

\* the value get_element_value gives for symbol e on the first feature
ValueOf(e) == get_element_value(feats[1], fields, e, TRUE).val

\* q is the quotient of a by b
IsQuotient(q, a, b) == RMul(q, b) = a

\* C14: on valid input the coordinates are: Nb vs Y -> (Y, Nb), so Nb 10 and
\* Y 5 give (5, 10) and Y 0 gives (None, None); Zr/Ti vs Nb/Y -> (Nb/Y, Zr/Ti);
\* Meschede -> (Zr/4, Y, 2 Nb); Rb vs (Y+Nb) -> (Y+Nb, Rb); Ti vs Zr ->
\* (Zr, Ti); both TAS diagrams -> (SiO2, Na2O+K2O).
C14_CoordinateRules ==
    /\ (CoordsComputed /\ AllUsable) =>
          CASE diagram = "Pearce1984_YNb" ->
                   ret_coords = <<ValueOf(<<"Y">>), ValueOf(<<"N", "b">>)>>
            [] diagram = "Pearce1996_NbY_ZrTi" ->
                   /\ IsQuotient(ret_coords[1], ValueOf(<<"N", "b">>), ValueOf(<<"Y">>))
                   /\ IsQuotient(ret_coords[2], ValueOf(<<"Z", "r">>), ValueOf(<<"T", "i">>))
            [] diagram = "Meschede1986_Ternary" ->
                   /\ IsQuotient(ret_coords[1], ValueOf(<<"Z", "r">>), R(4))
                   /\ ret_coords[2] = ValueOf(<<"Y">>)
                   /\ ret_coords[3] = RAdd(ValueOf(<<"N", "b">>), ValueOf(<<"N", "b">>))
            [] diagram = "Pearce1984_YNbRb" ->
                   ret_coords = <<RAdd(ValueOf(<<"Y">>), ValueOf(<<"N", "b">>)), ValueOf(<<"R", "b">>)>>
            [] diagram = "PearceCann1973_ZrTi" ->
                   ret_coords = <<ValueOf(<<"Z", "r">>), ValueOf(<<"T", "i", "O", "2">>)>>
            [] diagram \in {"Wilson1989_TAS", "Cox1979_TAS"} ->
                   ret_coords = <<ValueOf(<<"S", "i", "O", "2">>), RAdd(ValueOf(<<"N", "a", "2", "O">>), ValueOf(<<"K", "2", "O">>))>>
    /\ (CoordsComputed /\ diagram = "Pearce1984_YNb" /\ fields = << <<"N", "b", "_", "p", "p", "m">>, <<"Y", "_", "p", "p", "m">> >>) =>
          /\ feats[1] = <<NumCell(R(10)), NumCell(R(5))>> => ret_coords = <<R(5), R(10)>>
          /\ feats[1] = <<NumCell(R(10)), NumCell(R(0))>> => ret_coords = <<NoneVal, NoneVal>>

\* Nb 10 and Y 5 on the Nb vs Y diagram
C14_Witness ==
    /\ CoordsComputed
    /\ diagram = "Pearce1984_YNb"
    /\ feats[1] = <<NumCell(R(10)), NumCell(R(5))>>
    /\ ret_coords = <<R(5), R(10)>>
\* ---- claims about ternary_to_cartesian ----

TernaryDone == op = "ternary_to_cartesian"

Total == RAdd(RAdd(abc[1], abc[2]), abc[3])

AllPositive == \A i \in 1..3 : RPositive(abc[i])

\* 1 - q
OneMinus(q) == RAdd(R(1), RMul(R(-1), q))

LessEq(p, q) == ~RLess(q, p)

\* the point <<x, k * sqrt(3)>> lies in the closed triangle (0,0), (1,0),
\* (1/2, sqrt(3)/2): 0 <= k, k <= x and k <= 1 - x
InTriangle(x, k) ==
    /\ LessEq(R(0), k)
    /\ LessEq(k, x)
    /\ LessEq(k, OneMinus(x))

ScaleFactors == { R(2), R(3), Dec(1, 2), Dec(1, 10) }

\* C16: ternary_to_cartesian returns (NaN, NaN) when a + b + c = 0; for
\* positive a, b, c it returns x = (2b + c) / (2(a + b + c)) and
\* y = (sqrt(3)/2) * c / (a + b + c), a point of the closed triangle with
\* vertices (0,0), (1,0), (1/2, sqrt(3)/2), and the same point as for the
\* triple multiplied by any positive factor.
C16_TernaryTransform ==
    TernaryDone =>
        /\ Total = R(0) => ret_coords = <<NaN, NaN>>
        /\ AllPositive =>
             /\ ret_coords[1] =
                    RDiv(RAdd(RMul(R(2), abc[2]), abc[3]), RMul(R(2), Total))
             /\ ret_coords[2] = Sqrt3Times(RMul(Dec(1, 2), RDiv(abc[3], Total)))
             /\ InTriangle(ret_coords[1], ret_coords[2][2])
             /\ \A k \in ScaleFactors :
                    ret_coords =
                        ternary_to_cartesian(RMul(k, abc[1]), RMul(k, abc[2]), RMul(k, abc[3]))

C16_Witness ==
    /\ TernaryDone
    /\ abc = <<R(1), R(2), R(5)>>
    /\ ret_coords = <<Dec(9, 16), Sqrt3Times(Dec(5, 16))>>

C16_WitnessNaN ==
    /\ TernaryDone
    /\ abc = <<Dec(-1, 2), R(0), Dec(1, 2)>>
    /\ ret_coords = <<NaN, NaN>>
\* ---- claims about create_categorical_color_map ----

ColorMapDone == op = "create_categorical_color_map"

\* the position of the first appearance of a label in sample_names
FirstAt(label) ==
    CHOOSE k \in DOMAIN sample_names :
        /\ sample_names[k] = label
        /\ \A j \in 1..(k - 1) : sample_names[j] # label

\* the position of a label among the unique categories
CategoryAt(label) == CHOOSE i \in DOMAIN unique_categories : unique_categories[i] = label

\* C17: create_categorical_color_map returns the unique labels in the order
\* of their first appearance; every sample receives the colour and the
\* marker of its label, so samples with the same label have the same pair;
\* with at most 10 unique labels the category colours are pairwise distinct.
C17_CategoriesInFirstAppearanceOrder ==
    ColorMapDone =>
        /\ { unique_categories[i] : i \in DOMAIN unique_categories }
               = { sample_names[k] : k \in DOMAIN sample_names }
        /\ \A i, j \in DOMAIN unique_categories :
               i < j => FirstAt(unique_categories[i]) < FirstAt(unique_categories[j])
        /\ DOMAIN sample_colors = DOMAIN sample_names
        /\ DOMAIN sample_markers = DOMAIN sample_names
        /\ \A k \in DOMAIN sample_names :
               /\ category_colors[CategoryAt(sample_names[k])]
                      = <<sample_names[k], sample_colors[k]>>
               /\ category_markers[CategoryAt(sample_names[k])]
                      = <<sample_names[k], sample_markers[k]>>
        /\ \A k, m \in DOMAIN sample_names :
               sample_names[k] = sample_names[m] =>
                   /\ sample_colors[k] = sample_colors[m]
                   /\ sample_markers[k] = sample_markers[m]
        /\ Len(unique_categories) <= 10 =>
               \A i, j \in DOMAIN category_colors :
                   i # j => category_colors[i][2] # category_colors[j][2]

C17_Witness ==
    /\ ColorMapDone
    /\ sample_names = << <<"A">>, <<"B">>, <<"A">>, <<"C">> >>
    /\ unique_categories = << <<"A">>, <<"B">>, <<"C">> >>
    /\ sample_colors[1] = sample_colors[3]
    /\ sample_markers[1] = sample_markers[3]
    /\ sample_colors[1] # sample_colors[2]

\* C18: with n unique labels the i-th unique category (from 0) has entry i of
\* the 10-colour palette when n <= 10, entry i of the 20-colour palette when
\* 11 <= n <= 20 and the continuous palette sampled at i/n when n >= 21; its
\* marker is entry i mod 15 of the 15 markers, so categories i and i + 15
\* have the same marker.
C18_PaletteByCardinality ==
    ColorMapDone =>
        /\ Len(category_colors) = Len(unique_categories)
        /\ Len(category_markers) = Len(unique_categories)
        /\ \A p \in DOMAIN unique_categories :
               /\ category_colors[p] =
                      << unique_categories[p],
                         IF Len(unique_categories) <= 10 THEN <<"tab10", p - 1>>
                         ELSE IF Len(unique_categories) <= 20 THEN <<"tab20", p - 1>>
                         ELSE <<"turbo", (256 * (p - 1)) \div Len(unique_categories)>> >>
               /\ category_markers[p] =
                      <<unique_categories[p], CATEGORY_MARKERS[((p - 1) % 15) + 1]>>
               /\ p + 15 \in DOMAIN unique_categories =>
                      category_markers[p][2] = category_markers[p + 15][2]

C18_Witness ==
    /\ ColorMapDone
    /\ Len(unique_categories) = 22
    /\ category_colors[2] = << <<"1">>, <<"turbo", 11>> >>
    /\ category_markers[1][2] = "o"
    /\ category_markers[16][2] = "o"
    /\ sample_names[1] = <<"1", "6">>
\* ---- claims about the generators ----

\* generate_plot has passed its guards with tab t in front
Generated(t) ==
    /\ op = "generate_plot"
    /\ tab = t
    /\ has_layer
    /\ selected # <<>>

\* the k-th selected sample
SelectedFeature(k) == feats[selected[k]]

NonNull(coords) == \A c \in DOMAIN coords : coords[c] # NoneVal

ValidSamples == { k \in DOMAIN data : NonNull(data[k]) }

\* C15: in generate_discrimination_diagram a sample with invalid coordinates
\* does not abort the batch: every selected sample has its entry in data, a
\* figure is made, valid_count is the number of samples whose coordinates are
\* not null, and the three components of a valid sample of the Meschede
\* ternary sum to 1 after the normalization of the transform.
C15_InvalidSamplesDoNotAbort ==
    Generated(1) =>
        /\ exc = ""
        /\ message = ""
        /\ current_fig = n_figs
        /\ n_figs > 0
        /\ Len(data) = Len(selected)
        /\ \A k \in DOMAIN selected :
               /\ data[k] = calculate_coordinates(diagram, SelectedFeature(k), fields).val
               /\ NonNull(data[k]) \/ data[k] = no_coordinates(diagram)
        /\ valid_count = Cardinality(ValidSamples)
        /\ Len(drawn) = valid_count
        /\ diagram = "Meschede1986_Ternary" =>
               \A k \in ValidSamples :
                   RAdd(RAdd(ternary_fractions(data[k][1], data[k][2], data[k][3])[1],
                             ternary_fractions(data[k][1], data[k][2], data[k][3])[2]),
                        ternary_fractions(data[k][1], data[k][2], data[k][3])[3]) = R(1)

\* three samples of which the first and the last lack Zr
C15_Witness ==
    /\ Generated(1)
    /\ diagram = "Meschede1986_Ternary"
    /\ Len(selected) = 3
    /\ valid_count = 1
    /\ data = << no_coordinates(diagram), <<R(2), R(5), R(20)>>, no_coordinates(diagram) >>
    /\ Len(drawn) = 1
    /\ drawn[1].i = 1
    /\ drawn[1].at = <<Dec(5, 9), Sqrt3Times(Dec(10, 27))>>
\* the label of the k-th selected sample in the feature list
ListLabel(k) == list_label(id_field, fields, SelectedFeature(k), selected[k])

\* C19: a selected sample whose category/ID field holds a null or blank value
\* is labelled by generate_plot with the label synthesized from its row
\* identifier, as in the sample list, never with the text of the null value;
\* a sample with a value is labelled with that value.
C19_NullLabelsFallBack ==
    (op = "generate_plot" /\ has_layer /\ selected # <<>> /\ id_field # <<>>) =>
        /\ Len(sample_names) = Len(selected)
        /\ \A k \in DOMAIN selected : sample_names[k] = ListLabel(k)

\* the value of the coordinate sequence of the generator for the k-th
\* selected sample
ExpectedEntry(k) ==
    CASE tab = 0 ->
           [j \in DOMAIN get_element_order(order_index) |->
               spider_value_in(SelectedFeature(k), fields, get_element_order(order_index)[j],
                               get_normalization_values(norm_index),
                               find_element_field(fields, get_element_order(order_index)[j])).val]
      [] tab = 1 -> calculate_coordinates(diagram, SelectedFeature(k), fields).val
      [] tab = 2 ->
           << axis_value(operand_value(SelectedFeature(k), fields, x_num,
                                       NormTable(ree_norm_id)).val,
                         operand_value(SelectedFeature(k), fields, x_denom,
                                       NormTable(ree_norm_id)).val),
              axis_value(operand_value(SelectedFeature(k), fields, y_num,
                                       NormTable(ree_norm_id)).val,
                         operand_value(SelectedFeature(k), fields, y_denom,
                                       NormTable(ree_norm_id)).val) >>

\* the coordinate sequence of the generator
Entries ==
    CASE tab = 0 -> plot_data
      [] tab = 1 -> data
      [] tab = 2 -> [k \in DOMAIN x_data |-> <<x_data[k], y_data[k]>>]

\* where the k-th sample is drawn, <<>> if it is not
DrawnAt(k) ==
    CASE tab = 0 -> plot_data[k]
      [] tab = 1 -> plot_position(diagram, data[k])
      [] tab = 2 -> IF NonNull(<<x_data[k], y_data[k]>>) THEN <<x_data[k], y_data[k]>> ELSE <<>>

FigureMade == exc = "" /\ message = ""

\* C20: in each generator the coordinate sequence, the labels and the colour
\* and marker sequences have the length of the selected-sample list and entry
\* i of each belongs to the i-th selected sample; an invalid sample keeps its
\* position as a null entry, and every sample drawn is drawn at its own
\* coordinates with the colour and the marker at its own position.
C20_SequencesAlignedWithSelection ==
    \A t \in {0, 1, 2} :
        (Generated(t) /\ FigureMade) =>
            /\ Len(Entries) = Len(selected)
            /\ Len(sample_names) = Len(selected)
            /\ Len(sample_colors) = Len(selected)
            /\ Len(sample_markers) = Len(selected)
            /\ \A k \in DOMAIN selected :
                   /\ Entries[k] = ExpectedEntry(k)
                   /\ sample_names[k] =
                          sample_names_of(id_field, fields, <<SelectedFeature(k)>>,
                                          <<selected[k]>>)[1]
                   /\ sample_colors[k] = dict_get(category_colors, sample_names[k])
                   /\ sample_markers[k] = dict_get(category_markers, sample_names[k])
            /\ \A n \in DOMAIN drawn :
                   /\ drawn[n].i + 1 \in DOMAIN selected
                   /\ drawn[n].at = DrawnAt(drawn[n].i + 1)
                   /\ drawn[n].color = sample_colors[drawn[n].i + 1]
                   /\ drawn[n].marker = sample_markers[drawn[n].i + 1]
                   /\ \A m \in 1..(n - 1) : drawn[m].i < drawn[n].i
            /\ { drawn[n].i + 1 : n \in DOMAIN drawn }
                   = { k \in DOMAIN selected : DrawnAt(k) # <<>> }

\* the third feature, unanalysed and labelled A, selected before the first,
\* analysed and without a label: only the second entry is drawn
C20_Witness ==
    /\ Generated(1)
    /\ diagram = "Meschede1986_Ternary"
    /\ selected = <<3, 1>>
    /\ sample_names = << <<"A">>, <<"N", "U", "L", "L">> >>
    /\ data = << no_coordinates(diagram), <<R(2), R(5), R(20)>> >>
    /\ Len(drawn) = 1
    /\ drawn[1].i = 1
    /\ drawn[1].color = <<"tab10", 1>>
    /\ drawn[1].marker = "s"
    /\ sample_colors[1] = <<"tab10", 0>>
\* ---- claims about the plugin object ----

\* C29: every close of the dock widget resets pluginIsActive to False, the
\* first close and every later one, so the run() after it adds the dock
\* widget to the window again.
C29_EveryCloseDeactivates == [][CloseDock => ~pluginIsActive']_vars

\* C30: in every state reached by run(), closes of the dock widget and
\* unload(), an active plugin has a dock widget, and run() never calls show()
\* on a missing one.
C30_ActiveImpliesDockWidget ==
    /\ pluginIsActive => dock_widget # 0
    /\ op = "run" => exc = ""
\* ---- claims about the normalization tables and Save Plot ----

TablePositive(tbl) == \A i \in DOMAIN tbl : RPositive(tbl[i][2])

\* C21: every entry of the chondrite and of the primitive mantle table is
\* strictly positive, and the tables are the ones the module was loaded with
\* whatever plots were generated and saved.
C21_TablesPositiveAndUnchanged ==
    /\ TablePositive(chondrite_values)
    /\ TablePositive(primitive_mantle_values)
    /\ chondrite_values = CHONDRITE_VALUES
    /\ primitive_mantle_values = PRIMITIVE_MANTLE_VALUES

\* a spider diagram normalized with a table was generated, a second figure
\* made and exported
C21_Witness ==
    /\ op = "save_plot"
    /\ saved_fig = 2
    /\ tab = 0
    /\ \E k \in DOMAIN plot_data :
         \E j \in DOMAIN plot_data[k] : plot_data[k][j] = RDiv(Dec(237, 100), Dec(237, 1000))

\* the last Generate Plot ended without a warning and without an error
GenerationSucceeded == message' = "" /\ exc' = ""

\* C22: Save Plot exports the figure of the most recent successful Generate
\* Plot: without one it warns and exports nothing; a Generate Plot that ends
\* in a warning keeps the current figure; a successful one replaces it with
\* a new figure; an export writes the current figure.
C22_SaveExportsLatestFigure ==
    [][ /\ (op' = "generate_plot" /\ ~GenerationSucceeded) => current_fig' = current_fig
        /\ (op' = "generate_plot" /\ GenerationSucceeded) =>
               /\ n_figs' = n_figs + 1
               /\ current_fig' = n_figs'
        /\ op' # "generate_plot" => (current_fig' = current_fig /\ n_figs' = n_figs)
        /\ (op' = "save_plot" /\ current_fig = 0) =>
               /\ message' = "Please generate a plot first."
               /\ saved_fig' = 0
        /\ (op' = "save_plot" /\ saved_fig' # saved_fig) => saved_fig' = current_fig
        /\ op' # "save_plot" => saved_fig' = saved_fig
        /\ current_fig' = n_figs' ]_vars

\* the first figure was made and replaced by a second one, a Generate Plot
\* then stopped at missing elements and the Save Plot after it exported the
\* second figure
C22_Witness ==
    /\ op = "save_plot"
    /\ missing_elements # <<>>
    /\ current_fig = 2
    /\ saved_fig = 2
\* ---- claims about the operands of the custom XY plot ----

OperandLookedUp ==
    /\ op = "get_custom_element_value"
    /\ element \notin { <<"M", "g", "#">>, <<"1", " ", "(", "n", "o", "n", "e", ")">> }
    /\ ~arg_normalize

\* C23: the value of an operand other than Mg# and '1 (none)', before
\* normalization, is the value get_element_value returns for the symbol with
\* its default conversion, so a TiO2 percent column is converted to Ti ppm.
C23_OperandsUseTheUnitConverter ==
    OperandLookedUp =>
        [val |-> ret_val, exc |-> exc] = get_element_value(feats[1], fields, element, TRUE)
\* ---- claims about the oxide columns of Ti, Mn and P ----

\* the factor from oxide weight percent to element ppm
OxideFactor(e) ==
    CASE e = <<"T", "i">> -> R(5995)
      [] e = <<"M", "n">> -> R(7745)
      [] e = <<"P">> -> R(4364)

\* C26: whenever Ti, Mn or P resolves to a name of its oxide candidate list
\* (TiO2_pct, TiO2_PCT, TiO2_wt, TiO2, ...) get_element_value with
\* convert_to_ppm true returns the cell times the factor of the oxide.
C26_EveryOxideFormIsConverted ==
    ( /\ ValueLookedUp
      /\ convert_to_ppm
      /\ element \in { <<"T", "i">>, <<"M", "n">>, <<"P">> }
      /\ InList(ResolvedField, oxide_forms(element))
      /\ CellIsNumber(ResolvedCell) ) =>
        ret_val = RMul(CellNumber(ResolvedCell), OxideFactor(element))
\* ---- claims about the range of Mg# ----

\* C28: a Mg# that get_custom_element_value returns lies in [0, 100], for
\* every pair of MgO and iron cells that parse, zero and negative ones too.
C28_MgNumberWithinPercentRange ==
    (MgAsked /\ ret_val # NoneVal) =>
        /\ ~RLess(ret_val, R(0))
        /\ ~RLess(R(100), ret_val)
\* ---- claims about symbols that share leading letters ----

\* the result is a column named after another symbol
CrossResolved == ret_field # None /\ ret_field \notin PrefixColumns(element)

\* C25 as stated: some schema, the one of the layer or another one over the
\* same columns, makes Na resolve to an Nb column or Nb resolve to an Na column.
C25_NaAndNbCollide ==
    \E schema \in {fields} \cup Schemas(PrefixPool, MaxFields) :
        \/ find_element_field(schema, <<"N", "a">>) \in PrefixColumns(<<"N", "b">>)
        \/ find_element_field(schema, <<"N", "b">>) \in PrefixColumns(<<"N", "a">>)

\* C25, amended: Na and Nb never resolve to a column of the other symbol; the
\* prefix scan returns a column of another symbol only for a symbol that,
\* followed by the first letters of an allow-listed remainder, spells the
\* other symbol: C, with no exact candidate in the schema, resolves to the
\* cobalt column Co_pct (remainder O_PCT).
C25_PrefixScanCrossesOnlyByRemainder ==
    Resolved =>
        /\ element \in { <<"N", "a">>, <<"N", "b">> } => ~CrossResolved
        /\ CrossResolved =>
              /\ element = <<"C">>
              /\ ret_field = <<"C", "o", "_", "p", "c", "t">>
              /\ Hits(patterns(element)) = {}

\* C resolves to the cobalt column although a carbon column follows it
C25_Witness ==
    /\ Resolved
    /\ element = <<"C">>
    /\ fields = << <<"C", "o", "_", "p", "c", "t">>, <<"C", "p", "p", "m">> >>
    /\ ret_field = <<"C", "o", "_", "p", "c", "t">>
\* ---- claims about the values of the spider diagram ----

\* the oxide of K, P and Ti and its factor to element ppm
SpiderOxide(e) ==
    CASE e = <<"K">> -> <<"K", "2", "O">>
      [] e = <<"P">> -> <<"P", "2", "O", "5">>
      [] e = <<"T", "i">> -> <<"T", "I", "O", "2">>
      [] OTHER -> None

SpiderFactor(e) ==
    CASE e = <<"K">> -> R(8301)
      [] e = <<"P">> -> R(4364)
      [] e = <<"T", "i">> -> R(5995)
      [] OTHER -> R(1)

\* the field is an oxide column of the element: its upper-cased name holds the
\* oxide and PCT or WT, or is the oxide name itself
OxideColumn(e, field_name) ==
    /\ SpiderOxide(e) # None
    /\ Contains(upper(field_name), SpiderOxide(e))
    /\ \/ Contains(upper(field_name), <<"P", "C", "T">>)
       \/ Contains(upper(field_name), <<"W", "T">>)
       \/ upper(field_name) = SpiderOxide(e)

\* the cell of a field in feature k of the selection
CellAtOf(k, field_name) == Cell(SelectedFeature(k), fields, field_name)

\* the cell is not null and float() accepts it
CellParses(cell) == cell.t # "null" /\ float(cell).exc = ""

\* the raw value of a cell that parses, converted
SpiderRaw(e, field_name, cell) ==
    IF OxideColumn(e, field_name) THEN RMul(float(cell).val, SpiderFactor(e))
    ELSE float(cell).val

\* the value of element e for feature k of the selection with table tbl
SpiderExpected(k, e, tbl) ==
    LET field_name == find_element_field(fields, e) IN
    IF /\ field_name # None
       /\ CellParses(CellAtOf(k, field_name))
       /\ RPositive(SpiderRaw(e, field_name, CellAtOf(k, field_name)))
       /\ InTable(tbl, e)
       /\ RPositive(TableGet(tbl, e))
    THEN RDiv(SpiderRaw(e, field_name, CellAtOf(k, field_name)), TableGet(tbl, e))
    ELSE NaN

\* C24: the value of (sample, element) in a spider diagram is raw / table
\* [element] exactly when the element resolves to a field, the cell is not null
\* and parses, the raw value, multiplied by 8301, 4364 or 5995 for K, P or Ti
\* on an oxide column, is > 0 and the selected table has a positive entry;
\* otherwise it is NaN, and the sample is still plotted and counted.
C24_SpiderValues ==
    (Generated(0) /\ FigureMade) =>
        LET order == IF order_index = 0 THEN REE_ORDER
                     ELSE IF order_index = 1 THEN EXTENDED_SPIDER_ORDER
                     ELSE EXTENDED_ORDER_ALT
            tbl == IF norm_index = 0 THEN chondrite_values ELSE primitive_mantle_values
        IN /\ Len(plot_data) = Len(selected)
           /\ Len(drawn) = Len(selected)
           /\ \A k \in DOMAIN selected :
                  /\ Len(plot_data[k]) = Len(order)
                  /\ \A j \in DOMAIN order :
                         plot_data[k][j] = SpiderExpected(k, order[j], tbl)

\* K from the bare column K2O with the cell 10: 10 * 8301 / 545; the other
\* elements of the extended order are gaps
C24_Witness ==
    /\ Generated(0)
    /\ FigureMade
    /\ order_index = 1
    /\ norm_index = 0
    /\ fields = << <<"K", "2", "O">> >>
    /\ plot_data = << [j \in 1..19 |-> IF j = 4 THEN RDiv(R(83010), R(545)) ELSE NaN] >>
    /\ Len(drawn) = 1
\* ---- claims about the sample count of the discrimination diagrams ----

\* the marker of a draw call is at finite coordinates
FiniteAt(at) == at # <<>> /\ \A c \in DOMAIN at : at[c] # NaN

\* C27: the n of the title of a discrimination diagram is the number of
\* samples drawn at finite coordinates, and no sample that the Meschede
\* ternary accepts is projected to (NaN, NaN).
C27_CountEqualsSamplesDrawn ==
    (Generated(1) /\ FigureMade) =>
        /\ valid_count = Cardinality({ n \in DOMAIN drawn : FiniteAt(drawn[n].at) })
        /\ diagram = "Meschede1986_Ternary" =>
               \A n \in DOMAIN drawn : drawn[n].at # <<NaN, NaN>>

====
